---- MODULE Spec2Model ----
(***************************************************************************)
(* donos: a forwarding DNS resolver with hostname filtering.               *)
(*                                                                         *)
(* The module models                                                       *)
(*   - the wire codec of donos-proto (512-octet buffer, names with         *)
(*     compression pointers, header, question, record, packet), as         *)
(*     operators computed the way the code computes them;                  *)
(*   - the query pipeline: UdpServer::run (donos-server) driving           *)
(*     DnsHandler::handle / try_handle and RemoteLookupService::lookup.    *)
(*                                                                         *)
(* A String is a sequence of code points, a datagram a sequence of octets. *)
(* A 512-octet buffer holding a datagram is the datagram itself: the       *)
(* octets after its end read as 0, as in the zero-initialised array.       *)
(***************************************************************************)
EXTENDS Integers, Sequences, FiniteSets, TLC

(***************************************************************************)
(* Program constants.                                                      *)
(***************************************************************************)
BufSize == 512
MAX_JUMP == 5
MaxLabel == 63
InFlightLimit == 64
U16 == 65536
DOT == 46
REPLACEMENT == 65533

(***************************************************************************)
(* Results: Ok(v) / Err(e), the model of Result<T, E>.                     *)
(***************************************************************************)
Ok(v) == [ok |-> TRUE, val |-> v]
Err(e) == [ok |-> FALSE, err |-> e]

\* let a = v in F(a)
With(v, F(_)) == F(v)

\* the ? operator: the error of r, or F applied to the value of r
Then(r, F(_)) == IF r.ok THEN F(r.val) ELSE r

\* five steps joined by `?`, each made from the values of the steps before
\* it, and the result made from the five values. The arms are read in order:
\* the first arm whose guard holds is the result, so a step is looked at only
\* when every step before it succeeded.
Try5(r1, S2(_), S3(_, _), S4(_, _, _), S5(_, _, _, _), Fin(_, _, _, _, _)) ==
  LET r2 == S2(r1.val)
      r3 == S3(r1.val, r2.val)
      r4 == S4(r1.val, r2.val, r3.val)
      r5 == S5(r1.val, r2.val, r3.val, r4.val)
  IN CASE ~r1.ok -> r1
       [] ~r2.ok -> r2
       [] ~r3.ok -> r3
       [] ~r4.ok -> r4
       [] ~r5.ok -> r5
       [] OTHER -> Fin(r1.val, r2.val, r3.val, r4.val, r5.val)

Min(a, b) == IF a < b THEN a ELSE b

(***************************************************************************)
(* Bit helpers on octets (the code uses shifts and masks).                 *)
(***************************************************************************)
Bit(byte, n) == (byte \div (2 ^ n)) % 2 = 1
B2N(b) == IF b THEN 1 ELSE 0

(***************************************************************************)
(* buffer/reader.rs                                                        *)
(* A reader is [buf, pos, labels]: the octets, the cursor and the          *)
(* reading_labels map (offset -> name decoded at that offset).             *)
(***************************************************************************)
ByteAt(buf, p) == IF p < Len(buf) THEN buf[p + 1] ELSE 0

NewReader(buf) == [buf |-> buf, pos |-> 0, labels |-> <<>>]

\* fn step: no bound check
step(rd, steps) == [rd EXCEPT !.pos = @ + steps]

\* fn seek
seek(rd, pos) == [rd EXCEPT !.pos = pos]

\* fn read: Ok([val, rd]) or Err
read(rd) ==
  IF rd.pos >= BufSize THEN Err("EndOfBuffer")
  ELSE Ok([v |-> ByteAt(rd.buf, rd.pos), rd |-> [rd EXCEPT !.pos = @ + 1]])

\* a get without the bound check: indexing the array past its end panics
get_unchecked(rd, pos) ==
  IF pos >= BufSize THEN Err("panic: index out of bounds")
  ELSE Ok(ByteAt(rd.buf, pos))

\* fn get
get(rd, pos) ==
  IF pos >= BufSize THEN Err("EndOfBuffer") ELSE Ok(ByteAt(rd.buf, pos))

\* fn get_range: fails when end >= 512
get_range(rd, start, len) ==
  LET end == start + len IN
  IF end >= BufSize THEN Err("EndOfBuffer")
  ELSE Ok([i \in 1..len |-> ByteAt(rd.buf, start + i - 1)])

\* fn read_u16
read_u16(rd) ==
  LET a == read(rd)
      b == read(a.val.rd)
  IN CASE ~a.ok -> a
       [] ~b.ok -> b
       [] OTHER -> Ok([v |-> a.val.v * 256 + b.val.v, rd |-> b.val.rd])

\* a u32 from its two 16-bit halves. The integers of the model are 32 bits wide
\* and signed: a u32 above 2^31 - 1 is held as its value minus 2^32, which
\* keeps equality and the octets that \div and % extract from it
u32(hi, lo) == (IF hi < U16 \div 2 THEN hi ELSE hi - U16) * U16 + lo

\* fn read_u32
read_u32(rd) ==
  LET a == read_u16(rd)
      b == read_u16(a.val.rd)
  IN CASE ~a.ok -> a
       [] ~b.ok -> b
       [] OTHER -> Ok([v |-> u32(a.val.v, b.val.v), rd |-> b.val.rd])

\* String::from_utf8_lossy(..).to_lowercase() on one octet: an ASCII octet is
\* itself (upper case letters lowered), any other octet is replaced by U+FFFD.
LowerLossy(b) ==
  IF b >= 128 THEN REPLACEMENT
  ELSE IF b >= 65 /\ b <= 90 THEN b + 32 ELSE b

\* format!("{label}.{next_label}")
JoinDot(label, next) == label \o <<DOT>> \o next

\* a reader that ends the name where the jump limit is reached
ends_name(position, labels) ==
  Ok([label |-> <<>>, next |-> position + 1, labels |-> labels])

\* return Err(ReaderError::TooManyJumps(MAX_JUMP))
too_many_jumps(position, labels) == Err("TooManyJumps")

\* a reader whose cursor follows the jump: the position after the name the
\* pointer leads to
after_jump_landed(position, landed) == landed

\* Ok((label, position + 2)): the position after the two octets of the pointer
after_jump(position, landed) == position + 2

\* fn recursive_read_qname: Ok([label, next, labels]) or Err
RECURSIVE recursive_read_qname(_, _, _, _)
recursive_read_qname(rd, labels, position, jumps_count) ==
  LET length == get(rd, position)
      jump == length.val >= 192
      \* the pointer: its second octet, its target, the name read there
      b2 == get(rd, position + 1)
      offset == (length.val - 192) * 256 + b2.val
      sub == recursive_read_qname(rd, labels, offset, jumps_count + 1)
      \* the label: its octets and the rest of the name after it
      str_buffer == get_range(rd, position + 1, length.val)
      rest == recursive_read_qname(rd, labels, position + 1 + length.val, jumps_count)
      label == [i \in 1..length.val |-> LowerLossy(str_buffer.val[i])]
      full == IF rest.val.label = <<>> THEN label ELSE JoinDot(label, rest.val.label)
  IN CASE jumps_count > MAX_JUMP -> too_many_jumps(position, labels)
       [] ~length.ok -> length
       [] jump /\ ~b2.ok -> b2
       [] jump /\ offset \in DOMAIN labels ->
            Ok([label |-> labels[offset], next |-> position + 2, labels |-> labels])
       [] jump ->
            IF sub.ok
            THEN Ok([label |-> sub.val.label,
                     next |-> after_jump(position, sub.val.next),
                     labels |-> sub.val.labels])
            ELSE sub
       [] length.val = 0 ->
            Ok([label |-> <<>>, next |-> position + 1, labels |-> labels])
       [] ~str_buffer.ok -> str_buffer
       [] rest.ok ->
            Ok([label |-> full, next |-> rest.val.next,
                labels |-> (position :> full) @@ rest.val.labels])
       [] OTHER -> rest

\* fn read_qname: Ok([v, rd]) or Err
read_qname(rd) ==
  LET r == recursive_read_qname(rd, rd.labels, rd.pos, 0) IN
  IF ~r.ok THEN r
  ELSE Ok([v |-> r.val.label,
           rd |-> [rd EXCEPT !.pos = r.val.next, !.labels = r.val.labels]])

(***************************************************************************)
(* buffer/writer.rs                                                        *)
(* A writer is [buf, pos, wl]: the octets written so far, the cursor and   *)
(* the writing_labels map (name -> offset where it was written).           *)
(***************************************************************************)
NewWriter == [buf |-> <<>>, pos |-> 0, wl |-> <<>>]

\* self.buf[pos] = val on the zero-initialised array
SetAt(buf, p, v) ==
  IF p = Len(buf) THEN Append(buf, v)
  ELSE [i \in 1..(IF p + 1 > Len(buf) THEN p + 1 ELSE Len(buf)) |->
          IF i = p + 1 THEN v ELSE IF i <= Len(buf) THEN buf[i] ELSE 0]

\* fn set / fn set_u16: no bound check, no cursor move
set_u16(w, pos, val) ==
  [w EXCEPT !.buf = SetAt(SetAt(@, pos, (val \div 256) % 256), pos + 1, val % 256)]

\* fn write (and write_u8)
write_u8(w, val) ==
  IF w.pos >= BufSize THEN Err("EndOfBuffer")
  ELSE Ok([w EXCEPT !.buf = SetAt(@, w.pos, val), !.pos = @ + 1])

\* fn write_u16
write_u16(w, val) ==
  Then(write_u8(w, (val \div 256) % 256), LAMBDA a : write_u8(a, val % 256))

\* fn write_u32
write_u32(w, val) ==
  Then(write_u16(w, (val \div U16) % U16), LAMBDA a : write_u16(a, val % U16))

\* str::as_bytes: UTF-8 of a sequence of code points (ASCII or U+FFFD)
as_bytes(str) ==
  LET wide == {i \in 1..Len(str) : str[i] >= 128}
      \* the index in the result of the first octet of code point i
      first(i) == i + 2 * Cardinality({j \in wide : j < i})
  IN
  IF wide = {} THEN str
  ELSE [k \in 1..(Len(str) + 2 * Cardinality(wide)) |->
          With(CHOOSE i \in 1..Len(str) :
                 first(i) <= k /\ k <= first(i) + (IF i \in wide THEN 2 ELSE 0),
               LAMBDA i : IF i \in wide THEN <<239, 191, 189>>[k - first(i) + 1]
                          ELSE str[i])]

\* for b in bytes { self.write_u8(*b)?; }: the loop in closed form, it fails
\* at the octet that would be written at offset 512
write_all(w, bytes) ==
  IF w.pos + Len(bytes) > BufSize THEN Err("EndOfBuffer")
  ELSE Ok([w EXCEPT
             !.buf = [i \in 1..(IF w.pos + Len(bytes) > Len(@)
                                THEN w.pos + Len(bytes) ELSE Len(@)) |->
                        IF i > w.pos /\ i <= w.pos + Len(bytes) THEN bytes[i - w.pos]
                        ELSE IF i <= Len(@) THEN @[i] ELSE 0],
             !.pos = @ + Len(bytes)])

\* fn write_label: the length is cast to u8 before it is compared with 0x3f
write_label(w, label) ==
  LET bytes == as_bytes(label) IN
  IF Len(bytes) % 256 > MaxLabel THEN Err("SingleLabelLengh")
  ELSE Then(write_u8(w, Len(bytes) % 256), LAMBDA a : write_all(a, bytes))

\* str::split_once('.'): index of the first dot, 0 when there is none
FirstDot(str) ==
  IF \E i \in 1..Len(str) : str[i] = DOT
  THEN CHOOSE i \in 1..Len(str) : str[i] = DOT /\ \A j \in 1..(i - 1) : str[j] # DOT
  ELSE 0

\* fn recursive_write_qname: Ok([w, jumped]) or Err
RECURSIVE recursive_write_qname(_, _)
recursive_write_qname(w, qname) ==
  IF qname \in DOMAIN w.wl THEN
    Then(write_u16(w, 49152 + (w.wl[qname] % U16)), LAMBDA a :
      Ok([w |-> a, jumped |-> TRUE]))
  ELSE
    LET w1 == [w EXCEPT !.wl = (qname :> w.pos) @@ @]
        d == FirstDot(qname)
    IN
    IF d > 0 THEN
      Then(write_label(w1, SubSeq(qname, 1, d - 1)), LAMBDA a :
        recursive_write_qname(a, SubSeq(qname, d + 1, Len(qname))))
    ELSE
      Then(write_label(w1, qname), LAMBDA a : Ok([w |-> a, jumped |-> FALSE]))

\* fn write_qname
write_qname(w, qname) ==
  Then(recursive_write_qname(w, qname), LAMBDA r :
    IF ~r.jumped THEN write_u8(r.w, 0) ELSE Ok(r.w))

(***************************************************************************)
(* packet/header.rs                                                        *)
(***************************************************************************)
ResponseCodes ==
  <<"NoError", "FormatError", "ServerFailure", "NameError", "NotImplemented", "Refused">>

\* donos-parser ResponseCode::from_num: a code that is not 1..5 is NoError
ResponseCode_from_num(value) ==
  Ok(IF value >= 1 /\ value <= 5 THEN ResponseCodes[value + 1] ELSE "NoError")

\* impl TryFrom<u8> for ResponseCode
ResponseCode_try_from(value) ==
  IF value <= 5 THEN Ok(ResponseCodes[value + 1]) ELSE Err("InvalidResponseCode")

\* ResponseCode as u8
ResponseCode_num(rc) == CHOOSE n \in 0..5 : ResponseCodes[n + 1] = rc

\* impl Default for Header
DefaultHeader ==
  [id |-> 0, recursion_desired |-> FALSE, truncated_message |-> FALSE,
   authoritative_answer |-> FALSE, opcode |-> 0, response |-> FALSE,
   response_code |-> "NoError", checking_disabled |-> FALSE,
   authed_data |-> FALSE, z |-> FALSE, recursion_available |-> FALSE,
   questions |-> 0, answers |-> 0, authoritative_entries |-> 0,
   resource_entries |-> 0]

\* Header::read: id, the two flag octets, then the four counts
Header_read(rd) ==
  Then(read_u16(rd), LAMBDA id :
  Then(read(id.rd), LAMBDA head :
  Then(read(head.rd), LAMBDA tail :
  Then(ResponseCode_try_from(tail.v % 16), LAMBDA rc :
  Then(read_u16(tail.rd), LAMBDA qd :
  Then(read_u16(qd.rd), LAMBDA an :
  Then(read_u16(an.rd), LAMBDA ns :
  Then(read_u16(ns.rd), LAMBDA ar :
  Ok([v |-> [id |-> id.v,
             recursion_desired |-> Bit(head.v, 0),
             truncated_message |-> Bit(head.v, 1),
             authoritative_answer |-> Bit(head.v, 2),
             opcode |-> (head.v \div 8) % 16,
             response |-> Bit(head.v, 7),
             response_code |-> rc,
             checking_disabled |-> Bit(tail.v, 4),
             authed_data |-> Bit(tail.v, 5),
             z |-> Bit(tail.v, 6),
             recursion_available |-> Bit(tail.v, 7),
             questions |-> qd.v, answers |-> an.v,
             authoritative_entries |-> ns.v, resource_entries |-> ar.v],
      rd |-> ar.rd])))))))))

\* Header::write
Header_write(h, w) ==
  Then(write_u16(w, h.id), LAMBDA a :
  Then(write_u8(a, (B2N(h.recursion_desired) + 2 * B2N(h.truncated_message)
                    + 4 * B2N(h.authoritative_answer)
                    + ((8 * h.opcode) % 128)
                    + 128 * B2N(h.response)) % 256), LAMBDA b :
  Then(write_u8(b, ResponseCode_num(h.response_code)
                   + 16 * B2N(h.checking_disabled)
                   + 32 * B2N(h.authed_data) + 64 * B2N(h.z)
                   + 128 * B2N(h.recursion_available)), LAMBDA c :
  Then(write_u16(c, h.questions), LAMBDA d :
  Then(write_u16(d, h.answers), LAMBDA e :
  Then(write_u16(e, h.authoritative_entries), LAMBDA f :
  write_u16(f, h.resource_entries)))))))

(***************************************************************************)
(* packet/mod.rs: QueryType, packet/question.rs                            *)
(***************************************************************************)
QT_A == [tag |-> "A", num |-> 1]
QT_NS == [tag |-> "NS", num |-> 2]
QT_CNAME == [tag |-> "CNAME", num |-> 5]
QT_MX == [tag |-> "MX", num |-> 15]
QT_AAAA == [tag |-> "AAAA", num |-> 28]

\* QueryType::from_num
from_num(num) ==
  CASE num = 1 -> QT_A
    [] num = 2 -> QT_NS
    [] num = 5 -> QT_CNAME
    [] num = 15 -> QT_MX
    [] num = 28 -> QT_AAAA
    [] OTHER -> [tag |-> "Unknown", num |-> num]

\* QueryType::into_num
into_num(qt) == qt.num

DnsClasses == <<"Internet", "Csnet", "Chaos", "Hesiod">>

\* donos-parser DnsClass::from_num: a class that is not 1..4 is Internet
DnsClass_from_num(value) ==
  Ok(IF value >= 1 /\ value <= 4 THEN DnsClasses[value] ELSE "Internet")

\* impl TryFrom<u16> for DnsClass
DnsClass_try_from(value) ==
  IF value >= 1 /\ value <= 4 THEN Ok(DnsClasses[value]) ELSE Err("InvalidClass")

DnsClass_num(c) == CHOOSE n \in 1..4 : DnsClasses[n] = c

\* Question::new
Question_new(name, qtype) == [name |-> name, qtype |-> qtype, qclass |-> "Internet"]

\* Question::read
Question_read(rd) ==
  Then(read_qname(rd), LAMBDA name :
  Then(read_u16(name.rd), LAMBDA qtype :
  Then(read_u16(qtype.rd), LAMBDA qclass :
  Then(DnsClass_try_from(qclass.v), LAMBDA class :
  Ok([v |-> [name |-> name.v, qtype |-> from_num(qtype.v), qclass |-> class],
      rd |-> qclass.rd])))))

\* Question::write
Question_write(q, w) ==
  Then(write_qname(w, q.name), LAMBDA a :
  Then(write_u16(a, into_num(q.qtype)), LAMBDA b :
  write_u16(b, DnsClass_num(q.qclass))))

(***************************************************************************)
(* packet/record.rs                                                        *)
(* A record is [kind, domain, ttl, ...]; addr is the sequence of the four  *)
(* octets (A) or of the eight 16-bit segments (AAAA).                      *)
(***************************************************************************)
\* Record::ttl
Record_ttl(rec) == rec.ttl

\* Record::delayed_ttl
delayed_ttl(rec, ttl) == [rec EXCEPT !.ttl = ttl]

\* Record::read: the RDATA of a record of type qtype
Record_read_data(r0, qtype, dom, ttl, qtype_num, data_len) ==
  CASE qtype = QT_A ->
         Then(read_u32(r0), LAMBDA raw :
         Ok([v |-> [kind |-> "A", domain |-> dom, ttl |-> ttl,
                    addr |-> << (raw.v \div 16777216) % 256, (raw.v \div U16) % 256,
                                (raw.v \div 256) % 256, raw.v % 256 >>],
             rd |-> raw.rd]))
    [] qtype = QT_AAAA ->
         Then(read_u32(r0), LAMBDA r1 :
         Then(read_u32(r1.rd), LAMBDA r2 :
         Then(read_u32(r2.rd), LAMBDA r3 :
         Then(read_u32(r3.rd), LAMBDA r4 :
         Ok([v |-> [kind |-> "AAAA", domain |-> dom, ttl |-> ttl,
                    addr |-> << (r1.v \div U16) % U16, r1.v % U16,
                                (r2.v \div U16) % U16, r2.v % U16,
                                (r3.v \div U16) % U16, r3.v % U16,
                                (r4.v \div U16) % U16, r4.v % U16 >>],
             rd |-> r4.rd])))))
    [] qtype = QT_NS \/ qtype = QT_CNAME ->
         Then(read_qname(r0), LAMBDA host :
         Ok([v |-> [kind |-> qtype.tag, domain |-> dom, ttl |-> ttl, host |-> host.v],
             rd |-> host.rd]))
    [] qtype = QT_MX ->
         Then(read_u16(r0), LAMBDA priority :
         Then(read_qname(priority.rd), LAMBDA host :
         Ok([v |-> [kind |-> "MX", domain |-> dom, ttl |-> ttl,
                    priority |-> priority.v, host |-> host.v],
             rd |-> host.rd])))
    [] OTHER ->
         Ok([v |-> [kind |-> "Unknown", domain |-> dom, ttl |-> ttl,
                    qtype |-> qtype_num, data_len |-> data_len],
             rd |-> step(r0, data_len)])

\* Record::read
Record_read(rd) ==
  Try5(read_qname(rd),
       LAMBDA domain : read_u16(domain.rd),
       LAMBDA domain, qtype_num : read_u16(qtype_num.rd),
       LAMBDA domain, qtype_num, qclass : read_u32(qclass.rd),
       LAMBDA domain, qtype_num, qclass, ttl : read_u16(ttl.rd),
       LAMBDA domain, qtype_num, qclass, ttl, data_len :
         Record_read_data(data_len.rd, from_num(qtype_num.v), domain.v, ttl.v,
                          qtype_num.v, data_len.v))

\* the start every written record shares: name, type, class 1, ttl
Record_write_prefix(rec, w, qtype) ==
  Then(write_qname(w, rec.domain), LAMBDA a :
  Then(write_u16(a, into_num(qtype)), LAMBDA b :
  Then(write_u16(b, 1), LAMBDA c :
  write_u32(c, rec.ttl))))

RECURSIVE write_u16s(_, _)
write_u16s(w, vals) ==
  IF vals = <<>> THEN Ok(w)
  ELSE Then(write_u16(w, Head(vals)), LAMBDA a : write_u16s(a, Tail(vals)))

\* RDLENGTH placeholder, RDATA = [priority] host, then the back-patch
Record_write_host(w, rec) ==
  Then(write_u16(w, 0), LAMBDA a :
  Then(IF rec.kind = "MX" THEN write_u16(a, rec.priority) ELSE Ok(a), LAMBDA b :
  Then(write_qname(b, rec.host), LAMBDA c :
  Ok(set_u16(c, w.pos, (c.pos - (w.pos + 2)) % U16)))))

\* Record::write: an Unknown record writes nothing
Record_write(rec, w) ==
  IF rec.kind \notin {"A", "AAAA", "NS", "CNAME", "MX"} THEN Ok(w)
  ELSE
  Then(Record_write_prefix(rec, w,
         CASE rec.kind = "A" -> QT_A
           [] rec.kind = "AAAA" -> QT_AAAA
           [] rec.kind = "NS" -> QT_NS
           [] rec.kind = "CNAME" -> QT_CNAME
           [] OTHER -> QT_MX), LAMBDA p :
    CASE rec.kind = "A" ->
           Then(write_u16(p, 4), LAMBDA l : write_all(l, rec.addr))
      [] rec.kind = "AAAA" ->
           Then(write_u16(p, 16), LAMBDA l : write_u16s(l, rec.addr))
      [] OTHER -> Record_write_host(p, rec))

(***************************************************************************)
(* packet/mod.rs: DnsPacket                                                *)
(***************************************************************************)
DefaultPacket ==
  [header |-> DefaultHeader, questions |-> <<>>, answers |-> <<>>,
   authorities |-> <<>>, resources |-> <<>>]

\* for _ in 0..n { v.push(Question::read(&mut buffer)?) }
RECURSIVE read_questions(_, _, _)
read_questions(rd, n, acc) ==
  IF n = 0 THEN Ok([v |-> acc, rd |-> rd])
  ELSE Then(Question_read(rd), LAMBDA q : read_questions(q.rd, n - 1, Append(acc, q.v)))

\* for _ in 0..n { v.push(Record::read(&mut buffer)?) }
RECURSIVE read_records(_, _, _)
read_records(rd, n, acc) ==
  IF n = 0 THEN Ok([v |-> acc, rd |-> rd])
  ELSE Then(Record_read(rd), LAMBDA r : read_records(r.rd, n - 1, Append(acc, r.v)))

\* impl TryFrom<BytePacketBuffer> for DnsPacket: Ok([v, rd]) or Err
DnsPacket_read(buf) ==
  Try5(Header_read(NewReader(buf)),
       LAMBDA header : read_questions(header.rd, header.v.questions, <<>>),
       LAMBDA header, qs : read_records(qs.rd, header.v.answers, <<>>),
       LAMBDA header, qs, an :
         read_records(an.rd, header.v.authoritative_entries, <<>>),
       LAMBDA header, qs, an, ns :
         read_records(ns.rd, header.v.resource_entries, <<>>),
       LAMBDA header, qs, an, ns, ar :
         Ok([v |-> [header |-> header.v, questions |-> qs.v, answers |-> an.v,
                    authorities |-> ns.v, resources |-> ar.v],
             rd |-> ar.rd]))

\* DnsPacket::try_from(buffer): Ok(packet) or Err
try_from(buf) == Then(DnsPacket_read(buf), LAMBDA r : Ok(r.v))

RECURSIVE write_questions(_, _)
write_questions(w, qs) ==
  IF qs = <<>> THEN Ok(w)
  ELSE Then(Question_write(Head(qs), w), LAMBDA a : write_questions(a, Tail(qs)))

RECURSIVE write_records(_, _)
write_records(w, rs) ==
  IF rs = <<>> THEN Ok(w)
  ELSE Then(Record_write(Head(rs), w), LAMBDA a : write_records(a, Tail(rs)))

\* a header written with the counts it holds
keep_counts(packet) == packet.header

\* create_buffer: self.header.questions = self.questions.len() as u16, and so
\* on for the three record sections
set_counts(packet) ==
  [packet.header EXCEPT
     !.questions = Len(packet.questions) % U16,
     !.answers = Len(packet.answers) % U16,
     !.authoritative_entries = Len(packet.authorities) % U16,
     !.resource_entries = Len(packet.resources) % U16]

\* DnsPacket::create_buffer: Ok(writer) or Err; the counts are recomputed
create_buffer(packet) ==
  Then(Header_write(set_counts(packet), NewWriter), LAMBDA a :
  Then(write_questions(a, packet.questions), LAMBDA b :
  Then(write_records(b, packet.answers), LAMBDA c :
  Then(write_records(c, packet.authorities), LAMBDA d :
  write_records(d, packet.resources)))))

\* &buffer.buf[0..buffer.pos]: the datagram a writer holds
Datagram(w) == [i \in 1..w.pos |-> ByteAt(w.buf, i - 1)]

(***************************************************************************)
(* donos-parser packet/header.rs, packet/mod.rs: response_from             *)
(***************************************************************************)
\* Header::response(id): the id and the response bit, every other field default
Header_response(request) ==
  [DefaultHeader EXCEPT !.id = request.id, !.response = TRUE]

\* Header::response_from
Header_response_from(request) ==
  [DefaultHeader EXCEPT !.id = request.id,
                        !.recursion_desired = request.recursion_desired,
                        !.opcode = request.opcode,
                        !.response = TRUE]

\* DnsPacket::response_from
response_from(request) ==
  [DefaultPacket EXCEPT !.header = Header_response_from(request.header),
                        !.questions = request.questions]

\* the header without its four counts (what PartialEq of the inner header compares)
Inner(h) ==
  [f \in (DOMAIN h) \ {"questions", "answers", "authoritative_entries",
                       "resource_entries"} |-> h[f]]

(***************************************************************************)
(* The pipeline: bounds and inputs.                                        *)
(***************************************************************************)
\* number of datagrams the server takes from its socket in one run
MaxRequests == 2

\* number of datagrams of a burst that fills the fan-out
MaxBurst == 66

\* numbers of lookups made before the observed run, around the wrap of the u16
StartLookups == {U16 - 2, U16 - 1, 2 * U16 - 1}

\* client socket addresses, in the order in which they first send
Clients == <<"10.0.0.1:4000", "10.0.0.2:4000">>

NameA == <<97>>
NameX == <<120>>

\* the names the filter blocks
Blocklist == {NameX}

\* id 7, RD, one question: a. A IN
DgQuery == <<0, 7, 1, 0, 0, 1, 0, 0, 0, 0, 0, 0, 1, 97, 0, 0, 1, 0, 1>>
\* id 9, RD, one question: x. A IN (a blocked name)
DgBlocked == <<0, 9, 1, 0, 0, 1, 0, 0, 0, 0, 0, 0, 1, 120, 0, 0, 1, 0, 1>>
\* id 11, RD and AD, the question x. A IN and one additional record a. A 10.0.0.9
DgBlockedExtra ==
  <<0, 11, 1, 32, 0, 1, 0, 0, 0, 0, 0, 1, 1, 120, 0, 0, 1, 0, 1,
    1, 97, 0, 0, 1, 0, 1, 0, 0, 0, 3, 0, 4, 10, 0, 0, 9>>
\* id 5, a header with no question
DgNoQuestion == <<0, 5, 0, 0, 0, 0, 0, 0, 0, 0, 0, 0>>
\* length 2, two octets, then a pointer back to the start of the name
DgLoop == <<0, 1, 0, 0, 0, 1, 0, 0, 0, 0, 0, 0, 2, 97, 98, 192, 12>>
\* response-code nibble 6
DgBadCode == <<0, 2, 0, 6>>
\* question class 9
DgBadClass == <<0, 3, 0, 0, 0, 1, 0, 0, 0, 0, 0, 0, 0, 0, 1, 0, 9>>
\* a pointer whose target is offset 1023
DgFarPointer == <<0, 4, 0, 0, 0, 1, 0, 0, 0, 0, 0, 0, 195, 255>>

ClientDatagrams ==
  {DgQuery, DgBlocked, DgBlockedExtra, DgNoQuestion,
   DgLoop, DgBadCode, DgBadClass, DgFarPointer}

\* id 13, RD, two questions: a. A IN, then x. MX IN
DgTwoAX ==
  <<0, 13, 1, 0, 0, 2, 0, 0, 0, 0, 0, 0,
    1, 97, 0, 0, 1, 0, 1, 1, 120, 0, 0, 15, 0, 1>>
\* id 15, RD, two questions: x. A IN, then a. MX IN
DgTwoXA ==
  <<0, 15, 1, 0, 0, 2, 0, 0, 0, 0, 0, 0,
    1, 120, 0, 0, 1, 0, 1, 1, 97, 0, 0, 15, 0, 1>>

\* requests of more than one question
MultiDatagrams == {DgTwoAX, DgTwoXA}

\* id 17, RD, one question: a. MX IN
DgQueryMX == <<0, 17, 1, 0, 0, 1, 0, 0, 0, 0, 0, 0, 1, 97, 0, 0, 15, 0, 1>>

\* requests that are forwarded upstream with different questions
ForwardedDatagrams == {DgQuery, DgQueryMX}

\* what the upstream resolver may send back for a query
UpstreamKinds == {"answer", "refused", "garbage", "longlabel", "unknown"}

\* an owner name of one label of 64 octets 'a': the reader takes any length
\* below 192 as a label, the writer refuses a label longer than 63
LongLabel == <<64>> \o [i \in 1..64 |-> 97] \o <<0>>

\* the upstream resolver's datagram for a query datagram: the query's id and
\* question with QR, RD, RA set and one A record (ttl 2, 10.0.0.1) for the
\* question name; or response code Refused; or four octets with code nibble 6;
\* or the answer with one more A record whose owner name is LongLabel; or the
\* answer with one more record of type 99 (ttl 6, three octets of data)
UpstreamReplyFor(query, kind) ==
  LET question == SubSeq(query, 13, Len(query))
      head(code, answers) ==
        <<query[1], query[2], 129, 128 + code, query[5], query[6],
          0, answers, 0, 0, 0, 0>>
  IN
  CASE kind = "answer" ->
         head(0, 1) \o question
           \o <<192, 12, 0, 1, 0, 1, 0, 0, 0, 2, 0, 4, 10, 0, 0, 1>>
    [] kind = "refused" -> head(5, 0) \o question
    [] kind = "longlabel" ->
         head(0, 2) \o question
           \o <<192, 12, 0, 1, 0, 1, 0, 0, 0, 2, 0, 4, 10, 0, 0, 1>>
           \o LongLabel \o <<0, 1, 0, 1, 0, 0, 0, 2, 0, 4, 10, 0, 0, 2>>
    [] kind = "unknown" ->
         head(0, 2) \o question
           \o <<192, 12, 0, 1, 0, 1, 0, 0, 0, 2, 0, 4, 10, 0, 0, 1>>
           \o <<192, 12, 0, 99, 0, 1, 0, 0, 0, 6, 0, 3, 1, 2, 3>>
    [] OTHER -> <<0, 0, 0, 6>>

(***************************************************************************)
(* The pipeline: state.                                                    *)
(***************************************************************************)
VARIABLES
  server,    \* UdpServer::run: "running"; "draining" once the receiver stream
             \* has ended; "returned" after Ok(()); "panicked" once a panic
             \* has unwound it
  received,  \* number of messages the receiver stream has yielded
  handlers,  \* the handler future of each message, by arrival number
  index,     \* RemoteLookupService.index, the AtomicU16
  lookups,   \* history: number of fetch_add calls since the service was built
  allocated, \* history: [h, k, id] for the k-th fetch_add, made by handler h
  upNet,     \* queries sent to servers[0] and not answered yet
  upSock,    \* datagrams waiting in the lookup socket, oldest first
  outbox,    \* datagrams the sender wrote to the server socket
  resolved,  \* history: the (name, qtype) resolved upstream with answers
  cache,     \* MemoryCacheService.inner: (qname, qtype) -> (deadline, records)
  now,       \* SystemTime::now(), in ticks of 1 / TicksPerSecond seconds
  found,     \* history: the last persist (put) and the last request (get)
  parsed,    \* the last buffer given to DnsPacket::try_from and its result
  built      \* the upstream lookup component: its configuration, the
             \* component built from it and the last query made with it

serverVars ==
  <<server, received, handlers, index, lookups, allocated, upNet, upSock,
    outbox, resolved>>
cacheVars == <<cache, now, found>>
codecVars == <<parsed>>
lookupVars == <<built>>

vars == <<serverVars, cacheVars, codecVars, lookupVars>>

\* the arrival numbers of the messages of a run
Requests == DOMAIN handlers

None == [some |-> FALSE]
Some(m) == [some |-> TRUE, msg |-> m]

\* a handler future: its message (address, buffer), the decoded request, and
\* the history of what it did (error, path, log, hit)
IdleHandler ==
  [pc |-> "idle", address |-> "", buffer |-> <<>>, request |-> DefaultPacket,
   error |-> "", path |-> "", log |-> <<>>, hit |-> FALSE]

InFlight(h) == handlers[h].pc \in {"filter", "lookup_recv"}

InFlightCount == Cardinality({h \in Requests : InFlight(h)})

\* run is polling its stream
Serving == server \in {"running", "draining"}

\* a stream that is polled for the next message whatever is in flight
has_room_unbounded == TRUE

\* buffer_unordered(64): the receiver stream is polled only while fewer than
\* 64 handler futures are in flight
has_room == InFlightCount < InFlightLimit

\* buffered(64): the output of a handler is yielded after those of all the
\* handlers started before it
yields_in_order(h) == \A g \in Requests : g < h => ~InFlight(g)

\* buffer_unordered(64): the output of a handler is yielded as soon as the
\* handler completes
yields(h) == TRUE

\* run after the output of handler h went through the loop body: once the
\* receiver stream has ended and nothing is in flight, stream.next() is None
\* and run returns Ok(())
after_completion(h) ==
  IF server = "draining" /\ \A g \in Requests \ {h} : ~InFlight(g)
  THEN "returned" ELSE server

\* an id counter that stops at u16::MAX
fetch_add_saturating(i) == Min(i + 1, U16 - 1)

\* AtomicU16::fetch_add(1): the value after the call; wraps on overflow
fetch_add(i) == (i + 1) % U16

\* the addresses a datagram can come from: one that sent before, or the next new one
Known == {handlers[h].address : h \in 1..received}
Senders == {Clients[i] : i \in 1..Min(Len(Clients), Cardinality(Known) + 1)}

\* the state of a server that has made n lookups before the run that is
\* observed, with room for max messages in that run
Started(n, max) ==
  /\ server = "running"
  /\ received = 0
  /\ handlers = [h \in 1..max |-> IdleHandler]
  /\ index = n % U16
  /\ lookups = n
  /\ allocated = <<>>
  /\ upNet = {}
  /\ upSock = <<>>
  /\ outbox = <<>>
  /\ resolved = {}

\* Cache::new(size): empty
EmptyCache == <<>>

NoOperation == [op |-> "none"]

Idle ==
  /\ cache = EmptyCache
  /\ now = 0
  /\ found = [put |-> NoOperation, get |-> NoOperation]
  /\ built = NoOperation
  /\ parsed = NoOperation

Init == Started(0, MaxRequests) /\ Idle

(***************************************************************************)
(* src/dns/handler.rs, src/repository/lookup.rs, donos-server: operations. *)
(***************************************************************************)
\* a handler that answers an undecodable datagram by echoing it
on_decode_error_echo(address, buffer) ==
  Some([address |-> address, buffer |-> buffer, size |-> Len(buffer)])

\* handle: Err(err) => return None
on_decode_error(address, buffer) == None

\* handle: Err(HandleError::Blocked) => the request with response and NameError set
blocked_reply(request) ==
  [request EXCEPT !.header.response = TRUE, !.header.response_code = "NameError"]

\* a try_handle that forwards the upstream packet as it came
try_handle_forward(request, result) == result

\* try_handle: result.header.inner.id = packet.header.inner.id; Ok(result)
try_handle_ok(request, result) ==
  [result EXCEPT !.header.id = request.header.id]

\* RemoteLookupService::lookup: the query packet
lookup_query(id, qname, qtype) ==
  [DefaultPacket EXCEPT !.header.id = id, !.header.recursion_desired = TRUE,
                        !.questions = <<Question_new(qname, qtype)>>]

(***************************************************************************)
(* The datagrams and packets of a run are known in advance: the codec is   *)
(* applied to each of them once and the results are tabulated.             *)
(***************************************************************************)
Range(f) == {f[x] : x \in DOMAIN f}

\* the values index.fetch_add(1) returns in a run of MaxRequests lookups
LookupIds ==
  {(n + k) % U16 : n \in {0} \cup StartLookups, k \in 0..(MaxRequests - 1)}

\* lookup: packet.create_buffer() of the queries for the names clients ask
QueryTable ==
  [p \in {lookup_query(i, name, qtype) :
             i \in LookupIds, name \in {NameA, NameX}, qtype \in {QT_A, QT_MX}}
     |-> create_buffer(p)]

\* lookup: &req_buffer.buf[0..req_buffer.pos]
UpstreamQueries == {Datagram(w.val) : w \in {t \in Range(QueryTable) : t.ok}}

\* DnsPacket::try_from of every datagram the server can receive, from a
\* client or from the upstream resolver
DecodeTable ==
  [d \in ClientDatagrams \cup MultiDatagrams \cup ForwardedDatagrams
       \cup {UpstreamReplyFor(q, kind) : q \in UpstreamQueries, kind \in UpstreamKinds}
     |-> try_from(d)]

decode(d) == DecodeTable[d]

\* the packets the server decodes in a run
DecodedPackets == {t.val : t \in {u \in Range(DecodeTable) : u.ok}}

\* handle: create_buffer() of every reply packet the handler can build
ReplyTable ==
  [p \in UNION {{blocked_reply(pr[1]), try_handle_ok(pr[1], pr[2])} :
                  pr \in DecodedPackets \X DecodedPackets}
     |-> create_buffer(p)]

\* handle: packet.create_buffer().unwrap() and Some(Message {address, buffer, size})
message_of(address, packet) ==
  With(ReplyTable[packet], LAMBDA w :
    IF ~w.ok THEN Err("unwrap")
    ELSE Ok([address |-> address, buffer |-> w.val.buf, size |-> w.val.pos]))

\* BlocklistService::is_blocked of the in-memory filter
is_blocked(origin, domain) == domain \in Blocklist

\* Sender::send: socket.send_to(&buffer[0..size], address); sendOk is the io result
send(out, h, sendOk) ==
  IF out.some /\ sendOk
  THEN Append(outbox, [to |-> out.msg.address,
                       bytes |-> [i \in 1..out.msg.size |-> ByteAt(out.msg.buffer, i - 1)],
                       req |-> h])
  ELSE outbox

\* request.questions.pop(): the last question
last_question(request) == request.questions[Len(request.questions)]

\* packet.questions.first(), of a packet that has a question
first_question(request) == request.questions[1]

Key(request) == <<first_question(request).name, first_question(request).qtype>>

\* a panic (todo!() or unwrap()) in handler h unwinds UdpServer::run: the
\* stream and every handler future still in flight are dropped with it
Panic(h, rec, error, steps) ==
  /\ server' = "panicked"
  /\ handlers' = [g \in Requests |->
       IF g = h THEN [rec EXCEPT !.pc = "panicked", !.error = error,
                                 !.log = @ \o steps]
       ELSE IF InFlight(g) THEN [handlers[g] EXCEPT !.pc = "dropped"]
       ELSE handlers[g]]

\* the stream yields (address, datagram) and buffer_unordered starts handle on it:
\* decode, then the first question
Receive(d, a) ==
  /\ server = "running"
  /\ received + 1 \in Requests
  /\ has_room
  /\ received' = received + 1
  /\ \E req \in {decode(d)} :
       LET h == received + 1
           arrived == [IdleHandler EXCEPT !.address = a, !.buffer = d,
                         !.request = IF req.ok THEN req.val ELSE DefaultPacket]
       IN
       IF ~req.ok THEN
         /\ handlers' = [handlers EXCEPT ![h] =
              [arrived EXCEPT !.pc = "done", !.error = req.err, !.path = "undecoded"]]
         /\ outbox' = send(on_decode_error(a, d), h, TRUE)
         /\ UNCHANGED server
       ELSE IF req.val.questions = <<>> THEN
         /\ Panic(h, arrived, "NoQuestion", <<>>)
         /\ UNCHANGED outbox
       ELSE
         /\ handlers' = [handlers EXCEPT ![h] =
              [arrived EXCEPT !.pc = "filter", !.hit = Key(req.val) \in resolved]]
         /\ UNCHANGED <<server, outbox>>
  /\ UNCHANGED <<index, lookups, allocated, upNet, upSock, resolved>>
  /\ UNCHANGED <<cacheVars, codecVars, lookupVars>>

\* Receiver::into_stream: receive() returns Err, the while let loop ends and the
\* stream yields nothing more; run returns once nothing is in flight
ReceiveError ==
  /\ server = "running"
  /\ has_room
  /\ server' = IF InFlightCount = 0 THEN "returned" ELSE "draining"
  /\ UNCHANGED <<received, handlers, index, lookups, allocated, upNet, upSock,
                 outbox, resolved>>
  /\ UNCHANGED <<cacheVars, codecVars, lookupVars>>

\* handler h resumes after is_blocked: the blocked reply, or the lookup up to
\* its recv_from; res is what the filter returned
Filter(h, res, sendOk) ==
  /\ Serving
  /\ handlers[h].pc = "filter"
  /\ LET me == handlers[h]
         request == handlers[h].request
         question == first_question(handlers[h].request)
     IN
     IF res = "Err" THEN
       /\ sendOk
       /\ Panic(h, me, "Blocklist", <<"filter">>)
       /\ UNCHANGED <<index, lookups, allocated, upNet, outbox>>
     ELSE IF is_blocked(me.address, question.name) THEN
       \E m \in {message_of(me.address, blocked_reply(request))} :
         IF ~m.ok THEN
           /\ sendOk
           /\ Panic(h, me, "Writer", <<"filter", "encode">>)
           /\ UNCHANGED <<index, lookups, allocated, upNet, outbox>>
         ELSE
           /\ yields(h)
           /\ handlers' = [handlers EXCEPT ![h] =
                [me EXCEPT !.pc = "done", !.path = "blocked",
                           !.log = @ \o <<"filter", "encode", "send">>]]
           /\ outbox' = send(Some(m.val), h, sendOk)
           /\ server' = after_completion(h)
           /\ UNCHANGED <<index, lookups, allocated, upNet>>
     ELSE
       \E w \in {QueryTable[lookup_query(index, question.name, question.qtype)]} :
         /\ sendOk
         /\ index' = fetch_add(index)
         /\ lookups' = lookups + 1
         /\ allocated' = Append(allocated, [h |-> h, k |-> lookups, id |-> index])
         /\ IF ~w.ok THEN
              /\ Panic(h, me, "Lookup", <<"filter", "upstream">>)
              /\ UNCHANGED upNet
            ELSE
              /\ handlers' = [handlers EXCEPT ![h] =
                   [me EXCEPT !.pc = "lookup_recv",
                              !.log = @ \o <<"filter", "upstream">>]]
              /\ upNet' = upNet \cup {Datagram(w.val)}
              /\ UNCHANGED server
         /\ UNCHANGED outbox
  /\ UNCHANGED <<received, upSock, resolved>>
  /\ UNCHANGED <<cacheVars, codecVars, lookupVars>>

\* the upstream resolver answers one of the queries it was sent
UpstreamReply(q, kind) ==
  /\ Serving
  /\ q \in upNet
  /\ upNet' = upNet \ {q}
  /\ upSock' = Append(upSock, UpstreamReplyFor(q, kind))
  /\ UNCHANGED <<server, received, handlers, index, lookups, allocated, outbox,
                 resolved>>
  /\ UNCHANGED <<cacheVars, codecVars, lookupVars>>

\* a handler waiting in lookup's recv_from takes the next datagram of the shared
\* socket, decodes it, and its reply is encoded and handed to the sender
LookupRecv(h, sendOk) ==
  /\ Serving
  /\ handlers[h].pc = "lookup_recv"
  /\ upSock # <<>>
  /\ upSock' = Tail(upSock)
  /\ \E res \in {decode(Head(upSock))} :
       IF ~res.ok THEN
         /\ sendOk
         /\ Panic(h, handlers[h], "Lookup", <<>>)
         /\ UNCHANGED <<outbox, resolved>>
       ELSE
         \E m \in {message_of(handlers[h].address,
                               try_handle_ok(handlers[h].request, res.val))} :
           IF ~m.ok THEN
             /\ sendOk
             /\ Panic(h, handlers[h], "Writer", <<"encode">>)
             /\ UNCHANGED <<outbox, resolved>>
           ELSE
             /\ yields(h)
             /\ handlers' = [handlers EXCEPT ![h] =
                  [@ EXCEPT !.pc = "done", !.path = "resolved",
                            !.log = @ \o <<"encode", "send">>]]
             /\ outbox' = send(Some(m.val), h, sendOk)
             /\ server' = after_completion(h)
             /\ resolved' = IF res.val.answers # <<>>
                            THEN resolved \cup {Key(handlers[h].request)}
                            ELSE resolved
  /\ UNCHANGED <<received, index, lookups, allocated, upNet>>
  /\ UNCHANGED <<cacheVars, codecVars, lookupVars>>

(***************************************************************************)
(* src/repository/cache.rs: MemoryCacheService.                            *)
(***************************************************************************)
\* ticks of the clock in one second: SystemTime is finer than a TTL
TicksPerSecond == 2

\* the clock is observed up to this tick
MaxTicks == 5

\* a TTL taken from the first record of the list
first_ttl(records) ==
  IF records = <<>> THEN None ELSE Some(Record_ttl(Head(records)))

\* records.iter().map(|item| item.ttl()).min(): None for an empty list
RECURSIVE min_ttl(_)
min_ttl(records) ==
  IF records = <<>> THEN None
  ELSE With(min_ttl(Tail(records)), LAMBDA rest :
         IF rest.some THEN Some(Min(Record_ttl(Head(records)), rest.msg))
         ELSE Some(Record_ttl(Head(records))))

\* (qname.to_string(), qtype)
cache_key(qname, qtype) == <<qname, qtype>>

\* Cache::insert
insert(c, key, value) == [k \in (DOMAIN c) \cup {key} |-> IF k = key THEN value ELSE c[k]]

\* an invalidate that leaves the entry in place
invalidate_nothing(c, key) == c

\* Cache::invalidate
invalidate(c, key) == [k \in (DOMAIN c) \ {key} |-> c[k]]

\* Duration::as_secs rounded to the nearest second
as_secs_rounded(diff) == (diff + TicksPerSecond \div 2) \div TicksPerSecond

\* Duration::as_secs: the whole seconds of a duration
as_secs(diff) == diff \div TicksPerSecond

\* MemoryCacheService::persist: the cache after the call at time t
persist(c, t, qname, qtype, records) ==
  With(min_ttl(records), LAMBDA m :
    IF m.some
    THEN insert(c, cache_key(qname, qtype),
                [until |-> t + m.msg * TicksPerSecond, records |-> records])
    ELSE c)

\* MemoryCacheService::request at time t: the cache after the call and
\* Ok(result). The clock never runs backwards, so diff is at most the u32 TTL
\* the entry was stored with and the cast of its seconds to u32 keeps the value
request(c, t, qname, qtype) ==
  With(cache_key(qname, qtype), LAMBDA key :
    IF key \in DOMAIN c THEN
      IF c[key].until >= t THEN
        With(as_secs(c[key].until - t), LAMBDA secs :
          [cache |-> c,
           result |-> Some([i \in DOMAIN c[key].records |->
                              delayed_ttl(c[key].records[i], secs)])])
      ELSE [cache |-> invalidate(c, key), result |-> None]
    ELSE [cache |-> c, result |-> None])

NameUpperA == <<65>>

\* the names and types the cache is called with
CacheNames == {NameA, NameUpperA}
CacheTypes == {QT_A}

RecordA(ttl, last) ==
  [kind |-> "A", domain |-> NameA, ttl |-> ttl, addr |-> <<10, 0, 0, last>>]

\* the record lists given to persist: none, one record, and two records whose
\* smaller TTL is not the first
CacheRecords == {<<>>, <<RecordA(2, 1)>>, <<RecordA(3, 1), RecordA(1, 2)>>}

\* the entry stored under a key, if any
entry_of(c, key) == IF key \in DOMAIN c THEN Some(c[key]) ELSE None

Persist(qname, qtype, records) ==
  /\ cache' = persist(cache, now, qname, qtype, records)
  /\ found' = [found EXCEPT !.put =
       [op |-> "persist", qname |-> qname, qtype |-> qtype, records |-> records,
        at |-> now]]
  /\ UNCHANGED <<now, serverVars, codecVars, lookupVars>>

Request(qname, qtype) ==
  /\ \E r \in {request(cache, now, qname, qtype)} :
       /\ cache' = r.cache
       /\ found' = [found EXCEPT !.get =
            [op |-> "request", qname |-> qname, qtype |-> qtype, at |-> now,
             seen |-> entry_of(cache, cache_key(qname, qtype)),
             result |-> r.result]]
  /\ UNCHANGED <<now, serverVars, codecVars, lookupVars>>

\* time passes
Tick ==
  /\ now < MaxTicks
  /\ now' = now + 1
  /\ UNCHANGED <<cache, found, serverVars, codecVars, lookupVars>>

CacheNext ==
  \/ \E qname \in CacheNames, qtype \in CacheTypes, records \in CacheRecords :
       Persist(qname, qtype, records)
  \/ \E qname \in CacheNames, qtype \in CacheTypes : Request(qname, qtype)
  \/ Tick

\* the cache service on its own: calls of persist and request as time passes
CacheSpec == Init /\ [][CacheNext]_vars

\* request up to its await: inner.get(&key) and the comparison with now(). A
\* hit and a miss return at once; an expired entry leaves the call about to
\* invalidate the key
RequestGet(qname, qtype) ==
  /\ found.get.op # "get"
  /\ \E key \in {cache_key(qname, qtype)} :
       IF key \in DOMAIN cache /\ cache[key].until < now
       THEN /\ found' = [found EXCEPT !.get =
                 [op |-> "get", qname |-> qname, qtype |-> qtype, at |-> now,
                  seen |-> entry_of(cache, key)]]
            /\ UNCHANGED cache
       ELSE \E r \in {request(cache, now, qname, qtype)} :
              /\ cache' = r.cache
              /\ found' = [found EXCEPT !.get =
                   [op |-> "request", qname |-> qname, qtype |-> qtype,
                    at |-> now, seen |-> entry_of(cache, key),
                    result |-> r.result]]
  /\ UNCHANGED <<now, serverVars, codecVars, lookupVars>>

\* the rest of a request that found an expired entry:
\* self.inner.invalidate(&key).await; Ok(None)
RequestInvalidate ==
  /\ found.get.op = "get"
  /\ cache' = invalidate(cache, cache_key(found.get.qname, found.get.qtype))
  /\ found' = [found EXCEPT !.get =
       [op |-> "request", qname |-> found.get.qname, qtype |-> found.get.qtype,
        at |-> found.get.at, seen |-> found.get.seen, result |-> None]]
  /\ UNCHANGED <<now, serverVars, codecVars, lookupVars>>

\* the cache service shared by callers that run in parallel: a persist of one
\* caller can come between the get and the invalidate of another's request
RaceNext ==
  \/ \E qname \in CacheNames, qtype \in CacheTypes, records \in CacheRecords :
       Persist(qname, qtype, records)
  \/ \E qname \in CacheNames, qtype \in CacheTypes : RequestGet(qname, qtype)
  \/ RequestInvalidate
  \/ Tick

RaceSpec == Init /\ [][RaceNext]_vars

(***************************************************************************)
(* DnsPacket::try_from on arbitrary buffer contents.                       *)
(***************************************************************************)
\* number of fragments in the body of a generated buffer
MaxFragments == 2

\* the four counts of a generated header
FuzzCounts ==
  { <<0, 0, 0, 0>>, <<1, 0, 0, 0>>, <<1, 1, 0, 0>>, <<0, 1, 1, 1>>,
    <<2, 0, 0, 1>>, <<65535, 65535, 65535, 65535>> }

\* the second flags octet: response code 0, or the unassigned code 6
FuzzCodes == {0, 6}

\* pieces of a body: the root name, a label, a pointer to the first name, a
\* pointer to the last octet, a pointer past the buffer, a label length of 63,
\* type A class IN, type CNAME class 9, and a TTL with four octets of data
FuzzFragments ==
  { <<0>>, <<1, 65>>, <<192, 12>>, <<193, 255>>, <<255, 255>>, <<63>>,
    <<0, 1, 0, 1>>, <<0, 5, 0, 9>>, <<0, 0, 0, 2, 0, 4, 10, 0, 0, 1>> }

\* the octet that fills the rest of the 512: zeros, label lengths, pointers
FuzzPads == {0, 63, 192}

RECURSIVE FuzzBodies(_)
FuzzBodies(n) ==
  IF n = 0 THEN {<<>>}
  ELSE With(FuzzBodies(n - 1), LAMBDA shorter :
         shorter \cup {b \o f : b \in shorter, f \in FuzzFragments})

Padded(bytes, pad) == bytes \o [i \in 1..(BufSize - Len(bytes)) |-> pad]

FuzzBuffers ==
  { Padded(<<0, 0, 1, code>> \o
           <<c[1] \div 256, c[1] % 256, c[2] \div 256, c[2] % 256,
             c[3] \div 256, c[3] % 256, c[4] \div 256, c[4] % 256>> \o body, pad) :
      code \in FuzzCodes, c \in FuzzCounts, body \in FuzzBodies(MaxFragments),
      pad \in FuzzPads }

\* a buffer arrives
DecodeInit ==
  /\ Started(0, MaxRequests)
  /\ cache = EmptyCache
  /\ now = 0
  /\ found = [put |-> NoOperation, get |-> NoOperation]
  /\ built = NoOperation
  /\ parsed \in {[op |-> "buffer", buf |-> b] : b \in FuzzBuffers}

\* DnsPacket::try_from(BytePacketBuffer::new(buf))
TryFrom ==
  /\ parsed.op = "buffer"
  /\ parsed' = [op |-> "try_from", buf |-> parsed.buf, result |-> try_from(parsed.buf)]
  /\ UNCHANGED <<serverVars, cacheVars, lookupVars>>

DecodeSpec == DecodeInit /\ [][TryFrom]_vars

(***************************************************************************)
(* DnsPacket::create_buffer and DnsPacket::try_from, one after the other,  *)
(* on packets built in memory.                                             *)
(***************************************************************************)
\* number of records in the section of a built packet that holds records
MaxSectionLen == 2

EmptyName == <<>>
NameB == <<98>>
\* "a.b"
NameAB == <<97, DOT, 98>>
\* one label of 63 octets 'a'
Label63 == [i \in 1..MaxLabel |-> 97]

BuiltNames == {EmptyName, NameA, NameAB, Label63}

\* one record of each variant with the owner name a.b (hosts b and a, so that
\* the writer finds a suffix it has written), and an A record of the root name
BuiltRecords ==
  { [kind |-> "A", domain |-> NameAB, ttl |-> 2, addr |-> <<10, 0, 0, 1>>],
    [kind |-> "AAAA", domain |-> NameAB, ttl |-> u32(32768, 1),
     addr |-> <<8193, 3512, 0, 0, 0, 0, 65535, 1>>],
    [kind |-> "NS", domain |-> NameAB, ttl |-> 3, host |-> NameB],
    [kind |-> "CNAME", domain |-> NameAB, ttl |-> 4, host |-> NameA],
    [kind |-> "MX", domain |-> NameAB, ttl |-> 5, priority |-> 10, host |-> NameB],
    [kind |-> "Unknown", domain |-> NameAB, ttl |-> 6, qtype |-> 99, data_len |-> 0],
    [kind |-> "A", domain |-> EmptyName, ttl |-> 7, addr |-> <<10, 0, 0, 2>>] }

\* the sequences of at most n elements of S
RECURSIVE SeqsUpTo(_, _)
SeqsUpTo(S, n) ==
  IF n = 0 THEN {<<>>}
  ELSE With(SeqsUpTo(S, n - 1), LAMBDA shorter :
         shorter \cup {Append(s, x) : s \in shorter, x \in S})

\* a query header, and a response header with every flag set
BuiltHeaders ==
  { [DefaultHeader EXCEPT !.id = 7, !.recursion_desired = TRUE],
    [DefaultHeader EXCEPT !.id = U16 - 1, !.recursion_desired = TRUE,
       !.truncated_message = TRUE, !.authoritative_answer = TRUE, !.opcode = 15,
       !.response = TRUE, !.response_code = "Refused", !.checking_disabled = TRUE,
       !.authed_data = TRUE, !.z = TRUE, !.recursion_available = TRUE] }

\* packets as the program builds them: a header, no or one question, and
\* records in one of the three sections
BuiltPackets ==
  { [header |-> h, questions |-> qs,
     answers |-> IF s = 1 THEN rs ELSE <<>>,
     authorities |-> IF s = 2 THEN rs ELSE <<>>,
     resources |-> IF s = 3 THEN rs ELSE <<>>] :
      h \in BuiltHeaders,
      qs \in {<<>>} \cup {<<Question_new(n, QT_A)>> : n \in BuiltNames},
      rs \in SeqsUpTo(BuiltRecords, MaxSectionLen),
      s \in 1..3 }

\* a packet is built
RoundTripInit ==
  /\ Started(0, MaxRequests)
  /\ cache = EmptyCache
  /\ now = 0
  /\ found = [put |-> NoOperation, get |-> NoOperation]
  /\ built = NoOperation
  /\ parsed \in {[op |-> "packet", packet |-> p] : p \in BuiltPackets}

\* packet.create_buffer()
CreateBuffer ==
  /\ parsed.op = "packet"
  /\ parsed' = [op |-> "create_buffer", packet |-> parsed.packet,
                created |-> create_buffer(parsed.packet)]
  /\ UNCHANGED <<serverVars, cacheVars, lookupVars>>

\* DnsPacket::try_from of a buffer that holds the octets create_buffer wrote
TryFromCreated ==
  /\ parsed.op = "create_buffer"
  /\ parsed.created.ok
  /\ \E buf \in {Datagram(parsed.created.val)} :
       parsed' = [op |-> "try_from", packet |-> parsed.packet,
                  created |-> parsed.created, buf |-> buf,
                  result |-> try_from(buf)]
  /\ UNCHANGED <<serverVars, cacheVars, lookupVars>>

\* create_buffer() of the packet try_from returned
CreateBufferAgain ==
  /\ parsed.op = "try_from"
  /\ "packet" \in DOMAIN parsed
  /\ parsed.result.ok
  /\ parsed' = [op |-> "create_buffer_again", packet |-> parsed.packet,
                created |-> parsed.created, buf |-> parsed.buf,
                result |-> parsed.result,
                again |-> create_buffer(parsed.result.val)]
  /\ UNCHANGED <<serverVars, cacheVars, lookupVars>>

RoundTripNext == CreateBuffer \/ TryFromCreated \/ CreateBufferAgain

RoundTripSpec == RoundTripInit /\ [][RoundTripNext]_vars

(***************************************************************************)
(* BytePacketBuffer::read_qname, called again and again on one buffer.     *)
(***************************************************************************)
\* number of names read from one buffer
MaxReads == 3

\* the name a at 0, then seven names of one label and a pointer, each to the
\* name before it: at 3, 7, 11, 15, 19, 23 and 27
ChainBuffer ==
  <<1, 97, 0, 1, 98, 192, 0, 1, 99, 192, 3, 1, 100, 192, 7, 1, 101, 192, 11,
    1, 102, 192, 15, 1, 103, 192, 19, 1, 104, 192, 23>>
\* tests::should_fail_read_qname_with_loop: ab, then a pointer to offset 0
LoopBuffer == <<2, 97, 98, 192, 0>>
\* a pointer to itself
SelfPointer == <<192, 0>>
\* the name a at 0; the names at 3 and at 7 point to each other
TwoCycle == <<1, 97, 0, 1, 98, 192, 7, 1, 99, 192, 3>>
\* tests::should_read_qname_with_redirect: b.c at 0, d and a pointer to c at 5
RedirectBuffer == <<1, 98, 1, 99, 0, 1, 100, 192, 2>>
\* a at 0, a pointer to it at 3, and at 5 b and a pointer to that pointer
DoubleRedirect == <<1, 97, 0, 192, 0, 1, 98, 192, 3>>
\* at 0 the label A and a pointer to offset 16383; at 5 a pointer to the label
FarPointer == <<1, 65, 255, 255, 0, 192, 0>>

NameBuffers ==
  {ChainBuffer, LoopBuffer, SelfPointer, TwoCycle, RedirectBuffer,
   DoubleRedirect, FarPointer}

\* the offsets a caller reads names at
NameCursors == {0, 3, 5, 7, 23, 27}

\* a buffer arrives, the cursor is at 0
NameInit ==
  /\ Started(0, MaxRequests)
  /\ cache = EmptyCache
  /\ now = 0
  /\ found = [put |-> NoOperation, get |-> NoOperation]
  /\ built = NoOperation
  /\ parsed \in {[op |-> "reader", rd |-> NewReader(b), reads |-> 0] :
                   b \in NameBuffers}

\* buffer.pos = c
SetPos(c) ==
  /\ parsed.op \in {"reader", "read_qname"}
  /\ parsed.reads < MaxReads
  /\ parsed.rd.pos # c
  /\ parsed' = [op |-> "reader", rd |-> seek(parsed.rd, c), reads |-> parsed.reads]
  /\ UNCHANGED <<serverVars, cacheVars, lookupVars>>

\* buffer.read_qname(): start is the cursor before the call, had the offsets
\* in reading_labels before the call
ReadQname ==
  /\ parsed.op \in {"reader", "read_qname"}
  /\ parsed.reads < MaxReads
  /\ \E r \in {read_qname(parsed.rd)} :
       parsed' = [op |-> "read_qname",
                  rd |-> IF r.ok THEN r.val.rd ELSE parsed.rd,
                  reads |-> parsed.reads + 1,
                  start |-> parsed.rd.pos,
                  had |-> DOMAIN parsed.rd.labels,
                  result |-> IF r.ok THEN Ok(r.val.v) ELSE r]
  /\ UNCHANGED <<serverVars, cacheVars, lookupVars>>

NameNext == ReadQname \/ \E c \in NameCursors : SetPos(c)

NameSpec == NameInit /\ [][NameNext]_vars

(***************************************************************************)
(* BytePacketBuffer::write_qname, called again and again on one fresh      *)
(* buffer, and the names read back from offset 0.                          *)
(***************************************************************************)
\* number of names written into one buffer
MaxNames == 2

\* www.foo.bar, what.foo.bar (writer.rs tests) and foo.bar
NameWwwFooBar == <<119, 119, 119, DOT, 102, 111, 111, DOT, 98, 97, 114>>
NameWhatFooBar == <<119, 104, 97, 116, DOT, 102, 111, 111, DOT, 98, 97, 114>>
NameFooBar == <<102, 111, 111, DOT, 98, 97, 114>>

DottedNames ==
  {EmptyName, NameA, NameAB, NameFooBar, NameWwwFooBar, NameWhatFooBar}

\* a name of one label of n octets 'a'
LabelName(n) == [i \in 1..n |-> 97]

\* the longest label whose name (length octet, label, terminator) fits in
\* the buffer
LongestLabel == BufSize - 2

\* one name of one label for every length a label can have
LabelNames == {LabelName(n) : n \in 0..LongestLabel}

\* BytePacketBuffer::default()
WriteInit ==
  /\ Started(0, MaxRequests)
  /\ cache = EmptyCache
  /\ now = 0
  /\ found = [put |-> NoOperation, get |-> NoOperation]
  /\ built = NoOperation
  /\ parsed = [op |-> "writer", w |-> NewWriter, names |-> <<>>, starts |-> <<>>]

\* buffer.write_qname(name): names and starts are the names written so far
\* and the offsets they start at; a buffer gets dotted names and at most one
\* name of LabelNames
WriteQname(name) ==
  /\ parsed.op \in {"writer", "write_qname"}
  /\ parsed.op = "write_qname" => parsed.result.ok
  /\ Len(parsed.names) < MaxNames
  /\ name \in DottedNames \/ \A i \in DOMAIN parsed.names : parsed.names[i] \in DottedNames
  /\ \E r \in {write_qname(parsed.w, name)} :
       parsed' = [op |-> "write_qname", name |-> name, from |-> parsed.w.pos,
                  w |-> IF r.ok THEN r.val ELSE parsed.w,
                  names |-> IF r.ok THEN Append(parsed.names, name) ELSE parsed.names,
                  starts |-> IF r.ok THEN Append(parsed.starts, parsed.w.pos)
                             ELSE parsed.starts,
                  result |-> IF r.ok THEN Ok(r.val.pos) ELSE r]
  /\ UNCHANGED <<serverVars, cacheVars, lookupVars>>

\* for _ in 0..n { buffer.read_qname()? }: the names and the cursor after each
RECURSIVE read_qnames(_, _, _)
read_qnames(rd, n, acc) ==
  IF n = 0 THEN Ok(acc)
  ELSE Then(read_qname(rd), LAMBDA r :
         read_qnames(r.rd, n - 1, Append(acc, [name |-> r.v, cursor |-> r.rd.pos])))

\* the octets are read back by a reader at offset 0, one name per written name
ReadQnames ==
  /\ parsed.op = "write_qname"
  /\ parsed.result.ok
  /\ parsed' = [op |-> "read_qnames", w |-> parsed.w, names |-> parsed.names,
                starts |-> parsed.starts,
                read |-> read_qnames(NewReader(Datagram(parsed.w)),
                                     Len(parsed.names), <<>>)]
  /\ UNCHANGED <<serverVars, cacheVars, lookupVars>>

WriteNext == ReadQnames \/ \E name \in DottedNames \cup LabelNames : WriteQname(name)

WriteSpec == WriteInit /\ [][WriteNext]_vars

(***************************************************************************)
(* DnsPacket::try_from on datagrams of one question, for every value of    *)
(* the second flags octet and for classes inside and outside 1..4.         *)
(***************************************************************************)
\* the first flags octet: a query, and a response with RD
FieldHeads == {0, 129}

\* the second flags octet: RA, Z, AD, CD and the response-code nibble
FieldTails == 0..255

\* the 16 bits of a question class: the four classes, their neighbours, and
\* values whose low or high octet alone is a class
FieldClasses == {0, 1, 2, 3, 4, 5, 255, 256, 257, 1024, 1025, U16 - 1}

\* id 3, one question a. A with the class
FieldBuffers ==
  { <<0, 3, head, tail, 0, 1, 0, 0, 0, 0, 0, 0, 1, 97, 0, 0, 1,
      class \div 256, class % 256>> :
      head \in FieldHeads, tail \in FieldTails, class \in FieldClasses }

\* a datagram arrives
FieldInit ==
  /\ Started(0, MaxRequests)
  /\ cache = EmptyCache
  /\ now = 0
  /\ found = [put |-> NoOperation, get |-> NoOperation]
  /\ built = NoOperation
  /\ parsed \in {[op |-> "buffer", buf |-> b] : b \in FieldBuffers}

FieldSpec == FieldInit /\ [][TryFrom]_vars

(***************************************************************************)
(* BytePacketBuffer::get_range on a full buffer, for ranges that end       *)
(* before, at and after the end of the array.                              *)
(***************************************************************************)
\* a datagram that fills the array
FullBuffer == [i \in 1..BufSize |-> i % 256]

\* where a range starts and how long it is
RangeStarts == {0, 1, 2, 255, 256, 500, BufSize - 2, BufSize - 1, BufSize, BufSize + 1}
RangeLens == {0, 1, 2, 11, 12, 13, 256, 257, BufSize - 2, BufSize - 1, BufSize, BufSize + 1}

RangeInit ==
  /\ Started(0, MaxRequests)
  /\ cache = EmptyCache
  /\ now = 0
  /\ found = [put |-> NoOperation, get |-> NoOperation]
  /\ built = NoOperation
  /\ parsed \in {[op |-> "reader", rd |-> NewReader(b), reads |-> 0] :
                   b \in {FullBuffer, LoopBuffer}}

\* buffer.get_range(start, len)
GetRange(start, len) ==
  /\ parsed.op = "reader"
  /\ parsed' = [op |-> "get_range", rd |-> parsed.rd, start |-> start,
                len |-> len, result |-> get_range(parsed.rd, start, len)]
  /\ UNCHANGED <<serverVars, cacheVars, lookupVars>>

RangeNext == \E start \in RangeStarts, len \in RangeLens : GetRange(start, len)

RangeSpec == RangeInit /\ [][RangeNext]_vars

(***************************************************************************)
(* DnsPacket::response_from on requests built in memory.                   *)
(***************************************************************************)
\* request headers: ids, opcodes and RD, with the other flags clear or set
RequestHeaders ==
  { [DefaultHeader EXCEPT !.id = id, !.opcode = opcode,
       !.recursion_desired = rd,
       !.truncated_message = flag, !.authoritative_answer = flag,
       !.response = flag, !.checking_disabled = flag, !.authed_data = flag,
       !.z = flag, !.recursion_available = flag,
       !.response_code = IF flag THEN "Refused" ELSE "NoError"] :
      id \in {0, 7, U16 - 1}, opcode \in {0, 1, 15}, rd \in BOOLEAN,
      flag \in BOOLEAN }

\* requests of no, one or two questions, with or without a record in a section
RequestPackets ==
  { [header |-> h, questions |-> qs,
     answers |-> IF s = 1 THEN rs ELSE <<>>,
     authorities |-> IF s = 2 THEN rs ELSE <<>>,
     resources |-> IF s = 3 THEN rs ELSE <<>>] :
      h \in RequestHeaders,
      qs \in SeqsUpTo({Question_new(NameA, QT_A), Question_new(NameAB, QT_MX)}, 2),
      rs \in SeqsUpTo({[kind |-> "A", domain |-> NameAB, ttl |-> 2,
                        addr |-> <<10, 0, 0, 1>>]}, 1),
      s \in 1..3 }

\* a request is at hand
ResponseInit ==
  /\ Started(0, MaxRequests)
  /\ cache = EmptyCache
  /\ now = 0
  /\ found = [put |-> NoOperation, get |-> NoOperation]
  /\ built = NoOperation
  /\ parsed \in {[op |-> "request", request |-> p] : p \in RequestPackets}

\* DnsPacket::response_from(&request): the request is borrowed
ResponseFrom ==
  /\ parsed.op = "request"
  /\ parsed' = [op |-> "response_from", before |-> parsed.request,
                request |-> parsed.request,
                response |-> response_from(parsed.request)]
  /\ UNCHANGED <<serverVars, cacheVars, lookupVars>>

ResponseSpec == ResponseInit /\ [][ResponseFrom]_vars

(***************************************************************************)
(* DnsPacket::create_buffer on packets whose header holds counts that are  *)
(* not the lengths of the sections.                                        *)
(***************************************************************************)
\* the counts a header holds before the packet is encoded
StaleCounts == {0, 1, 9, U16 - 1}

\* every count of the header is c
WithCounts(h, c) ==
  [h EXCEPT !.questions = c, !.answers = c, !.authoritative_entries = c,
            !.resource_entries = c]

StalePackets ==
  { [p EXCEPT !.header = WithCounts(p.header, c)] :
      p \in {q \in RequestPackets : q.header.id = 7 /\ q.header.opcode = 0},
      c \in StaleCounts }

\* a packet is built
CountInit ==
  /\ Started(0, MaxRequests)
  /\ cache = EmptyCache
  /\ now = 0
  /\ found = [put |-> NoOperation, get |-> NoOperation]
  /\ built = NoOperation
  /\ parsed \in {[op |-> "packet", packet |-> p] : p \in StalePackets}

CountSpec == CountInit /\ [][CreateBuffer]_vars

(***************************************************************************)
(* The upstream lookup component: RemoteLookupService (repository/         *)
(* lookup.rs) built from its Config, and the Manager of donos-resolver     *)
(* built by a ManagerBuilder.                                              *)
(***************************************************************************)
\* number of resolvers added to a builder
MaxResolvers == 3

\* number of queries made with one component
MaxQueries == 2

\* Config::default_servers, and the lists a configuration file can hold
DefaultServers == <<"1.1.1.1", "1.0.0.1">>
ConfigServers == {<<>>, <<"9.9.9.9">>, DefaultServers}

\* the port of an upstream server
DnsPort == 53

\* RemoteLookupService::new: bind the socket, keep every server with port 53
RemoteLookupService_new(config, bound) ==
  IF ~bound THEN Err("io")
  ELSE Ok([servers |-> [i \in DOMAIN config.servers |->
                          <<config.servers[i], DnsPort>>],
           index |-> 0])

\* &self.servers[0]
first_server(service) ==
  IF service.servers = <<>> THEN Err("panic: index out of bounds")
  ELSE Ok(service.servers[1])

\* RemoteLookupService::lookup up to send_to: the id, the query, its octets
\* and the server they go to
lookup_send(service, qname, qtype) ==
  Then(create_buffer(lookup_query(service.index, qname, qtype)), LAMBDA w :
  Then(first_server(service), LAMBDA to :
  Ok([datagram |-> Datagram(w), to |-> to])))

\* the questions asked of a component
AskedNames == {NameA, NameAB}

\* a resolver: its identifier and the packets it holds, by (kind, hostname)
Answer(n, kind, hostname) ==
  [response_from(lookup_query(n, hostname, kind)) EXCEPT
     !.answers = <<[kind |-> "A", domain |-> hostname, ttl |-> n,
                    addr |-> <<10, 0, 0, n>>]>>]

ResolverNames == <<"first", "second", "third">>

\* MockResolver::new(identifier) holds nothing; the others hold the answer
\* to one or to both questions
Resolvers ==
  { [identifier |-> ResolverNames[n],
     responses |-> [key \in {<<QT_A, h>> : h \in known} |-> Answer(n, QT_A, key[2])]] :
      n \in DOMAIN ResolverNames, known \in SUBSET AskedNames }

\* Resolver::resolve of the mock
Resolver_resolve(resolver, kind, hostname) ==
  IF <<kind, hostname>> \in DOMAIN resolver.responses
  THEN Ok(resolver.responses[<<kind, hostname>>])
  ELSE Err("Unknown")

\* ManagerBuilder::default
ManagerBuilder_default == [resolvers |-> <<>>]

\* ManagerBuilder::with_resolver
with_resolver(builder, value) ==
  [builder EXCEPT !.resolvers = Append(@, value)]

\* ManagerBuilder::build
ManagerBuilder_build(builder) ==
  IF builder.resolvers = <<>> THEN Err("NoResolver")
  ELSE Ok([resolvers |-> builder.resolvers])

\* a success that forgets the errors met before it
found_alone(packet, errors) == Ok([packet |-> packet, errors |-> <<>>])

\* Ok(found) => return Ok((found, errors))
found_with_errors(packet, errors) == Ok([packet |-> packet, errors |-> errors])

\* Manager::resolve: the loop from the i-th resolver on; calls is the history
\* of the identifiers of the resolvers called
RECURSIVE resolve_from(_, _, _, _, _, _)
resolve_from(resolvers, i, kind, hostname, errors, calls) ==
  IF i > Len(resolvers)
  THEN [result |-> Err([failed |-> errors]), calls |-> calls]
  ELSE With(Resolver_resolve(resolvers[i], kind, hostname), LAMBDA r :
         IF r.ok
         THEN [result |-> found_with_errors(r.val, errors),
               calls |-> Append(calls, resolvers[i].identifier)]
         ELSE resolve_from(resolvers, i + 1, kind, hostname,
                           Append(errors, r.err),
                           Append(calls, resolvers[i].identifier)))

\* Manager::resolve
Manager_resolve(manager, kind, hostname) ==
  resolve_from(manager.resolvers, 1, kind, hostname, <<>>, <<>>)

\* a configuration has been read, or a builder has been made
LookupInit ==
  /\ Started(0, MaxRequests)
  /\ cache = EmptyCache
  /\ now = 0
  /\ found = [put |-> NoOperation, get |-> NoOperation]
  /\ parsed = NoOperation
  /\ built \in {[op |-> "builder", builder |-> ManagerBuilder_default]}
               \cup {[op |-> "config", config |-> [servers |-> s]] :
                       s \in ConfigServers}

\* builder.with_resolver(Box::new(value))
WithResolver(value) ==
  /\ built.op = "builder"
  /\ Len(built.builder.resolvers) < MaxResolvers
  /\ built' = [built EXCEPT !.builder = with_resolver(@, value)]
  /\ UNCHANGED <<serverVars, cacheVars, codecVars>>

\* builder.build()
Build ==
  /\ built.op = "builder"
  /\ built' = [op |-> "build", builder |-> built.builder,
               result |-> ManagerBuilder_build(built.builder)]
  /\ UNCHANGED <<serverVars, cacheVars, codecVars>>

\* manager.resolve(kind, hostname).await
Resolve(kind, hostname) ==
  /\ \/ built.op = "build" /\ built.result.ok
     \/ built.op = "resolve" /\ built.queries < MaxQueries
  /\ \E manager \in {IF built.op = "build" THEN built.result.val
                     ELSE built.manager} :
     \E r \in {Manager_resolve(manager, kind, hostname)} :
       built' = [op |-> "resolve", manager |-> manager,
                 queries |-> IF built.op = "build" THEN 1 ELSE built.queries + 1,
                 kind |-> kind, hostname |-> hostname,
                 result |-> r.result, calls |-> r.calls]
  /\ UNCHANGED <<serverVars, cacheVars, codecVars>>

\* config.build().await: RemoteLookupService::new(config)
New(bound) ==
  /\ built.op = "config"
  /\ built' = [op |-> "new", config |-> built.config,
               result |-> RemoteLookupService_new(built.config, bound)]
  /\ UNCHANGED <<serverVars, cacheVars, codecVars>>

\* service.lookup(qname, qtype) up to send_to; index.fetch_add(1) comes first
Lookup(qname, qtype) ==
  /\ \/ built.op = "new" /\ built.result.ok
     \/ built.op = "lookup" /\ built.queries < MaxQueries /\ built.sent.ok
  /\ \E service \in {IF built.op = "new" THEN built.result.val
                     ELSE built.service} :
       built' = [op |-> "lookup",
                 service |-> [service EXCEPT !.index = fetch_add(@)],
                 queries |-> IF built.op = "new" THEN 1 ELSE built.queries + 1,
                 qname |-> qname, qtype |-> qtype,
                 sent |-> lookup_send(service, qname, qtype)]
  /\ UNCHANGED <<serverVars, cacheVars, codecVars>>

LookupNext ==
  \/ \E value \in Resolvers : WithResolver(value)
  \/ Build
  \/ \E hostname \in AskedNames : Resolve(QT_A, hostname)
  \/ \E bound \in BOOLEAN : New(bound)
  \/ \E qname \in AskedNames, qtype \in {QT_A, QT_MX} : Lookup(qname, qtype)

LookupSpec == LookupInit /\ [][LookupNext]_vars

(***************************************************************************)
(* Record::read and DnsPacket::try_from on datagrams of one answer record, *)
(* for every record type and for RDLENGTH values that are, and are not,    *)
(* the length of the data the type is decoded from.                        *)
(***************************************************************************)
\* the type codes of the five known variants, and an unknown one
RecordTypes == {1, 2, 5, 15, 28, 99}

\* where the record of such a datagram starts, and where its RDATA starts:
\* after the name a (3 octets), type, class, TTL and RDLENGTH (10 octets)
RecordStart == 12
DataStart == RecordStart + 13

\* RDLENGTH values: none, the data lengths of the known types and their
\* neighbours, the last one that stays within the buffer, and beyond
DataLengths ==
  {0, 2, 3, 4, 5, 15, 16, 17, BufSize - DataStart, BufSize - DataStart + 1,
   U16 - 1}

\* the octets after RDLENGTH: the name b, or priority 354 and the root name,
\* or an address
DataOctets == <<1, 98, 0, 0, 0, 0, 0, 0, 0, 0, 0, 0, 0, 0, 0, 1, 7>>

\* id 3, a response with one answer: a. <type> IN, TTL 9, RDLENGTH len
RecordBuffers ==
  { <<0, 3, 128, 0, 0, 0, 0, 1, 0, 0, 0, 0,
      1, 97, 0, 0, type, 0, 1, 0, 0, 0, 9, len \div 256, len % 256>>
      \o DataOctets :
      type \in RecordTypes, len \in DataLengths }

\* a datagram arrives
RecordInit ==
  /\ Started(0, MaxRequests)
  /\ cache = EmptyCache
  /\ now = 0
  /\ found = [put |-> NoOperation, get |-> NoOperation]
  /\ built = NoOperation
  /\ parsed \in {[op |-> "buffer", buf |-> b] : b \in RecordBuffers}

\* Record::read(&mut buffer) with the cursor at the record
ReadRecord ==
  /\ parsed.op = "buffer"
  /\ parsed' = [op |-> "record", buf |-> parsed.buf,
                result |-> Record_read(seek(NewReader(parsed.buf), RecordStart))]
  /\ UNCHANGED <<serverVars, cacheVars, lookupVars>>

\* DnsPacket::try_from(buffer), with the cursor it leaves
ReadPacket ==
  /\ parsed.op = "buffer"
  /\ parsed' = [op |-> "packet", buf |-> parsed.buf,
                result |-> DnsPacket_read(parsed.buf)]
  /\ UNCHANGED <<serverVars, cacheVars, lookupVars>>

RecordNext == ReadRecord \/ ReadPacket

RecordSpec == RecordInit /\ [][RecordNext]_vars

(***************************************************************************)
(* The server.                                                             *)
(***************************************************************************)
Next ==
  \/ \E d \in ClientDatagrams, a \in Senders : Receive(d, a)
  \/ ReceiveError
  \/ \E h \in Requests, res \in {"Ok", "Err"}, sendOk \in BOOLEAN : Filter(h, res, sendOk)
  \/ \E q \in upNet, kind \in UpstreamKinds : UpstreamReply(q, kind)
  \/ \E h \in Requests, sendOk \in BOOLEAN : LookupRecv(h, sendOk)

Spec == Init /\ [][Next]_vars

\* the server when every client asks two questions in one request
MultiNext ==
  \/ \E d \in MultiDatagrams, a \in Senders : Receive(d, a)
  \/ \E h \in Requests, sendOk \in BOOLEAN : Filter(h, "Ok", sendOk)
  \/ \E q \in upNet, kind \in UpstreamKinds : UpstreamReply(q, kind)
  \/ \E h \in Requests, sendOk \in BOOLEAN : LookupRecv(h, sendOk)

MultiSpec == Init /\ [][MultiNext]_vars

\* the server when clients ask different questions that are all forwarded:
\* the lookups of the handlers in flight share the lookup socket
SharedNext ==
  \/ \E d \in ForwardedDatagrams, a \in Senders : Receive(d, a)
  \/ \E h \in Requests, sendOk \in BOOLEAN : Filter(h, "Ok", sendOk)
  \/ \E q \in upNet, kind \in UpstreamKinds : UpstreamReply(q, kind)
  \/ \E h \in Requests, sendOk \in BOOLEAN : LookupRecv(h, sendOk)

SharedSpec == Init /\ [][SharedNext]_vars

\* the server after StartLookups earlier lookups: its counter is about to wrap
WrapInit == (\E n \in StartLookups : Started(n, MaxRequests)) /\ Idle

WrapSpec == WrapInit /\ [][Next]_vars

\* the runtime polls every handler that can make progress; the clients and the
\* upstream resolver owe the server nothing
FairSpec ==
  /\ Spec
  /\ WF_vars(\E h \in Requests, res \in {"Ok", "Err"}, sendOk \in BOOLEAN :
               Filter(h, res, sendOk))
  /\ WF_vars(\E h \in Requests, sendOk \in BOOLEAN : LookupRecv(h, sendOk))

\* the handler that has been in flight for the longest time
oldest(h) == InFlight(h) /\ \A g \in Requests : g < h => ~InFlight(g)

\* a burst: MaxBurst clients' datagrams for a blocked name are waiting in the
\* socket; the filter answers the handlers in the order they were started
BurstNext ==
  \/ Receive(DgBlocked, Clients[1])
  \/ \E h \in Requests : oldest(h) /\ Filter(h, "Ok", TRUE)

BurstInit == Started(0, MaxBurst) /\ Idle

BurstSpec == BurstInit /\ [][BurstNext]_vars

(***************************************************************************)
(* Properties.                                                             *)
(***************************************************************************)
\* the datagrams sent in answer to request h
Replies(h) == {i \in 1..Len(outbox) : outbox[i].req = h}

\* the transaction id and the response-code nibble of a datagram
IdOf(bytes) == ByteAt(bytes, 0) * 256 + ByteAt(bytes, 1)
RcodeOf(bytes) == ByteAt(bytes, 3) % 16

\* the handlers whose datagram decoded
Decoded(h) == h \in 1..received /\ decode(handlers[h].buffer).ok

\* C1: every reply carries the transaction id of the request it answers and
\* goes to the address that request came from, on the blocked and on the
\* resolved path, however the handlers interleave.
ReplyMatchesRequest ==
  \A i \in 1..Len(outbox) :
    LET m == outbox[i]
        rq == handlers[m.req]
    IN /\ m.to = rq.address
       /\ Len(m.bytes) >= 2
       /\ IdOf(m.bytes) = IdOf(rq.buffer)

\* C1 witness: two requests from different addresses, one blocked and one
\* resolved, answered in the reverse of their arrival order.
ReplyMatchesRequestWitness ==
  /\ Len(outbox) = 2
  /\ outbox[1].req = 2 /\ outbox[2].req = 1
  /\ outbox[1].to # outbox[2].to
  /\ {handlers[1].path, handlers[2].path} = {"blocked", "resolved"}

\* C2: every reply has a response code in {NoError, NameError, ServerFailure},
\* whatever the upstream resolver returned.
ReplyCodeInContractSet ==
  \A i \in 1..Len(outbox) :
    RcodeOf(outbox[i].bytes) \in
      {ResponseCode_num("NoError"), ResponseCode_num("NameError"),
       ResponseCode_num("ServerFailure")}

\* C3: a decoded request with a question whose filter or upstream lookup
\* failed is answered: the handler completes and its reply has the request's
\* id, response set and response code ServerFailure.
FailureBecomesServerFailure ==
  \A h \in Requests :
    handlers[h].error \in {"Blocklist", "Lookup"} =>
      /\ handlers[h].pc = "done"
      /\ \E i \in Replies(h) :
           LET r == try_from(outbox[i].bytes) IN
           /\ r.ok
           /\ r.val.header.id = IdOf(handlers[h].buffer)
           /\ r.val.header.response
           /\ r.val.header.response_code = "ServerFailure"

\* C4: a failure inside one handler leaves every other request alone: no
\* request that was in flight is abandoned.
HandlersIndependent ==
  \A h \in Requests : handlers[h].pc # "dropped"

\* C5: every upstream lookup eventually returns to its handler, even when
\* the upstream resolver never replies.
LookupEventuallyReturns ==
  \A h \in 1..MaxRequests :
    [](handlers[h].pc = "lookup_recv" => <>(handlers[h].pc # "lookup_recv"))


\* C6: a datagram that fails to decode gets no reply, and its handler
\* completes normally.
UndecodableIsSilent ==
  \A h \in 1..received :
    ~decode(handlers[h].buffer).ok =>
      /\ handlers[h].pc = "done"
      /\ handlers[h].log = <<>>
      /\ Replies(h) = {}

\* C6 witness: an undecodable datagram was handled, and the request that came
\* after it was resolved and answered.
UndecodableIsSilentWitness ==
  /\ received = 2
  /\ ~decode(handlers[1].buffer).ok
  /\ handlers[1].error = "TooManyJumps"
  /\ handlers[2].path = "resolved"
  /\ Replies(2) # {}

\* C7: a decoded request with zero questions is discarded: no reply, no
\* filter call, no upstream lookup, and the handler completes normally.
NoQuestionIsDiscarded ==
  \A h \in Requests :
    (Decoded(h) /\ handlers[h].request.questions = <<>>) =>
      /\ handlers[h].pc = "done"
      /\ handlers[h].log = <<>>
      /\ Replies(h) = {}

\* the reply the contract prescribes for a blocked request
BlockedContractReply(req) ==
  [response_from(req) EXCEPT !.header.response_code = "NameError"]

\* C8: the reply to a request for a blocked name equals response_from(request)
\* with response code NameError, whatever else the request carries.
BlockedReplyIsResponseFrom ==
  \A h \in Requests :
    (handlers[h].request.questions # <<>>
       /\ is_blocked(handlers[h].address, handlers[h].request.questions[1].name)) =>
      \A i \in Replies(h) :
        LET r == try_from(outbox[i].bytes)
            want == BlockedContractReply(handlers[h].request)
        IN /\ r.ok
           /\ Inner(r.val.header) = Inner(want.header)
           /\ r.val.questions = want.questions
           /\ r.val.answers = <<>>
           /\ r.val.authorities = <<>>
           /\ r.val.resources = <<>>

\* the step sequences of the contract: blocked, cache hit, cache miss
StepOrders ==
  { <<"filter", "encode", "send">>,
    <<"filter", "cache", "encode", "send">>,
    <<"filter", "cache", "upstream", "cache-insert", "encode", "send">> }

IsPrefix(s, t) == Len(s) <= Len(t) /\ \A i \in 1..Len(s) : s[i] = t[i]

\* C9: the steps of a handler run in the order filter, cache, upstream,
\* cache-insert, encode, send, and a blocked request never reaches the
\* upstream step or the cache.
StepsInContractOrder ==
  \A h \in Requests :
    /\ \E t \in StepOrders : IsPrefix(handlers[h].log, t)
    /\ handlers[h].path = "blocked" => handlers[h].log = <<"filter", "encode", "send">>

\* C10: a request for a (name, qtype) that was already resolved upstream with
\* answers, arriving within their TTL, sends no second upstream query.
RepeatServedFromCache ==
  \A h \in Requests :
    handlers[h].hit => \A i \in 1..Len(handlers[h].log) : handlers[h].log[i] # "upstream"

\* C11: a handler whose reply cannot be encoded drops the reply: it completes
\* without sending anything and the server keeps running.
EncodeFailureDropsReply ==
  \A h \in Requests :
    handlers[h].error = "Writer" =>
      /\ handlers[h].pc = "done"
      /\ Replies(h) = {}
      /\ server # "panicked"

\* C12: at most 64 handlers are in flight at any moment, and a datagram is
\* taken from the receiver only while fewer than 64 are in flight.
FanOutBounded ==
  /\ [](InFlightCount <= InFlightLimit)
  /\ [][received' # received => InFlightCount < InFlightLimit]_vars

\* C12 witness: 64 handlers are in flight, one has completed since the burst
\* began and a datagram is still waiting.
FanOutBoundedWitness ==
  /\ InFlightCount = InFlightLimit
  /\ received = InFlightLimit + 1
  /\ received + 1 \in Requests
  /\ handlers[1].pc = "done"

\* handler b can complete now and have its reply sent while handler a stays
\* in its upstream wait
CompletesBefore(b, a, act) ==
  ENABLED (/\ act
           /\ handlers'[b].pc = "done"
           /\ outbox' = Append(outbox, outbox'[Len(outbox')])
           /\ outbox'[Len(outbox')].req = b
           /\ handlers'[a].pc = "lookup_recv")

\* C13: replies leave in completion order: when request b arrived after
\* request a and a is still waiting on the upstream resolver, the handler of
\* b can complete and its reply is sent without waiting for a.
NoHeadOfLineBlocking ==
  \A a, b \in Requests :
    (a < b /\ Serving /\ handlers[a].pc = "lookup_recv") =>
      /\ (handlers[b].pc = "filter"
            /\ is_blocked(handlers[b].address, handlers[b].request.questions[1].name)
            /\ message_of(handlers[b].address, blocked_reply(handlers[b].request)).ok)
           => CompletesBefore(b, a, Filter(b, "Ok", TRUE))
      /\ (handlers[b].pc = "lookup_recv" /\ upSock # <<>>
            /\ decode(Head(upSock)).ok
            /\ message_of(handlers[b].address,
                          try_handle_ok(handlers[b].request, decode(Head(upSock)).val)).ok)
           => CompletesBefore(b, a, LookupRecv(b, TRUE))

\* C13 witness: the second request has been answered while the first one is
\* still waiting for the upstream resolver.
NoHeadOfLineBlockingWitness ==
  /\ handlers[1].pc = "lookup_recv"
  /\ handlers[2].pc = "done"
  /\ Replies(2) # {}
  /\ Replies(1) = {}

\* C14: once the receiver has met its first receive error no further message
\* is yielded, every handler that was in flight completes and has its reply
\* handed to the sender, and run returns Ok: the run neither panics nor
\* abandons a handler, and it has returned only when nothing is in flight.
ReceiveErrorDrains ==
  [][server = "draining" =>
       /\ received' = received
       /\ server' \in {"draining", "returned"}
       /\ \A h \in 1..received :
            handlers'[h].pc \in {"filter", "lookup_recv", "done"}
       /\ server' = "returned" =>
            \A h \in 1..received : handlers'[h].pc = "done"]_vars

\* the last request found an entry whose deadline had passed
SawExpired ==
  /\ found.get.op = "request"
  /\ found.get.seen.some
  /\ found.get.seen.msg.until < found.get.at

\* C15: a request for a key whose deadline has passed returns a miss and
\* removes the entry: the key is absent from the cache after the call.
ExpiredIsMissAndRemoved ==
  [][(found'.get # found.get /\ SawExpired') =>
       /\ ~found'.get.result.some
       /\ cache_key(found'.get.qname, found'.get.qtype) \notin DOMAIN cache']_vars

\* C15 witness: an entry stored with a TTL of 1 second was requested after its
\* deadline; the request missed and the key is gone.
ExpiredIsMissAndRemovedWitness ==
  /\ SawExpired
  /\ found.get.seen.msg.records = <<RecordA(3, 1), RecordA(1, 2)>>
  /\ ~found.get.result.some
  /\ cache_key(found.get.qname, found.get.qtype) \notin DOMAIN cache

\* the last request hit an entry
Hit == found.get.op = "request" /\ found.get.result.some

\* C16: a request that hits returns every record of the entry with its TTL
\* rewritten to the whole seconds that remain until the deadline, and as the
\* clock advances successive requests for the same entry never return a
\* larger TTL.
HitReturnsRemainingSeconds ==
  /\ [](Hit =>
          LET entry == found.get.seen.msg
              secs == CHOOSE n \in 0..(entry.until - found.get.at) :
                        /\ n * TicksPerSecond <= entry.until - found.get.at
                        /\ (n + 1) * TicksPerSecond > entry.until - found.get.at
          IN /\ found.get.seen.some
             /\ Len(found.get.result.msg) = Len(entry.records)
             /\ \A i \in 1..Len(entry.records) :
                  found.get.result.msg[i] = [entry.records[i] EXCEPT !.ttl = secs])
  /\ [][(Hit /\ Hit' /\ found'.get.qname = found.get.qname
           /\ found'.get.qtype = found.get.qtype
           /\ found'.get.seen = found.get.seen) =>
          \A i \in 1..Len(found.get.result.msg) :
            found'.get.result.msg[i].ttl <= found.get.result.msg[i].ttl]_vars

\* C16 witness: the entry of two records stored with TTLs 3 and 1 was read
\* half a second after it was stored, and both records came back with TTL 0.
HitReturnsRemainingSecondsWitness ==
  /\ Hit
  /\ found.get.seen.msg.records = <<RecordA(3, 1), RecordA(1, 2)>>
  /\ found.get.seen.msg.until - found.get.at = 1
  /\ found.get.result.msg = <<RecordA(0, 1), RecordA(0, 2)>>

\* the smallest TTL of a non-empty record list
SmallestTtl(records) ==
  CHOOSE m \in {records[i].ttl : i \in 1..Len(records)} :
    \A i \in 1..Len(records) : m <= records[i].ttl

\* C17: persist with a non-empty record list stores the list under its key
\* with deadline now + the smallest TTL of the list, replacing what was under
\* the key and touching no other key; persist with an empty list leaves the
\* cache as it was.
PersistStoresUntilMinTtl ==
  [][found'.put # found.put =>
       LET put == found'.put
           key == cache_key(put.qname, put.qtype)
       IN IF put.records = <<>> THEN cache' = cache
          ELSE /\ DOMAIN cache' = DOMAIN cache \cup {key}
               /\ cache'[key] =
                    [until |-> now + SmallestTtl(put.records) * TicksPerSecond,
                     records |-> put.records]
               /\ \A k \in DOMAIN cache \ {key} : cache'[k] = cache[k]]_vars

\* C17 witness: a request saw the one-record entry under a key, then persist
\* replaced it with the two-record list, whose deadline is one second (the
\* smaller TTL) after the call.
PersistStoresUntilMinTtlWitness ==
  /\ Hit
  /\ found.get.seen.msg.records = <<RecordA(2, 1)>>
  /\ found.put.op = "persist"
  /\ found.put.records = <<RecordA(3, 1), RecordA(1, 2)>>
  /\ cache_key(found.put.qname, found.put.qtype)
       = cache_key(found.get.qname, found.get.qtype)
  /\ cache_key(found.put.qname, found.put.qtype) \in DOMAIN cache
  /\ cache[cache_key(found.put.qname, found.put.qtype)] =
       [until |-> found.put.at + TicksPerSecond, records |-> found.put.records]

\* a name with its ASCII upper case letters lowered
Lowercase(name) ==
  [i \in 1..Len(name) |-> IF name[i] >= 65 /\ name[i] <= 90 THEN name[i] + 32 ELSE name[i]]

\* C18: the cache key is (lowercased name, qtype): a request under a name
\* finds the live entry that was persisted under a name differing from it
\* only in letter case.
CacheKeyIgnoresCase ==
  [][found'.get # found.get =>
       ((\E k \in DOMAIN cache :
           /\ Lowercase(k[1]) = Lowercase(found'.get.qname)
           /\ k[2] = found'.get.qtype
           /\ cache[k].until >= now)
        => found'.get.result.some)]_vars

\* C19: lookup ids come from one counter by fetch-and-increment: the k-th
\* allocation gets k mod 2^16, the counter passes from 65535 to 0 like any
\* other step, and two allocations fewer than 2^16 apart never get the same
\* id, whichever handlers made them.
LookupIdsFromCounter ==
  /\ index = lookups % U16
  /\ \A i \in 1..Len(allocated) :
       /\ allocated[i].k = lookups - Len(allocated) + i - 1
       /\ allocated[i].id = allocated[i].k % U16
  /\ \A i, j \in 1..Len(allocated) :
       (i # j /\ allocated[i].k - allocated[j].k < U16
              /\ allocated[j].k - allocated[i].k < U16)
         => allocated[i].id # allocated[j].id

\* C19 witness: two lookups are waiting for their answers at the same time;
\* the first got id 65535 and the second id 0.
LookupIdsFromCounterWitness ==
  /\ Len(allocated) = 2
  /\ allocated[1].id = U16 - 1
  /\ allocated[2].id = 0
  /\ allocated[1].h # allocated[2].h
  /\ handlers[allocated[1].h].pc = "lookup_recv"
  /\ handlers[allocated[2].h].pc = "lookup_recv"

\* the errors of ReaderError
ReaderErrors == {"EndOfBuffer", "TooManyJumps", "InvalidResponseCode", "InvalidClass"}

\* C20: decoding any buffer content ends, with a packet or with one of the
\* four reader errors, whatever the header counts, labels and pointers are.
DecodeIsTotal ==
  parsed.op = "try_from" =>
    IF parsed.result.ok
    THEN DOMAIN parsed.result.val =
           {"header", "questions", "answers", "authorities", "resources"}
    ELSE parsed.result.err \in ReaderErrors

\* C20 witness: a buffer whose four counts are 65535 and whose other octets
\* are all 192 (pointers to pointers) was decoded, and the result is
\* TooManyJumps.
DecodeIsTotalWitness ==
  /\ parsed.op = "try_from"
  /\ Len(parsed.buf) = BufSize
  /\ \A i \in 5..12 : parsed.buf[i] = 255
  /\ \A i \in 13..BufSize : parsed.buf[i] = 192
  /\ parsed.result = Err("TooManyJumps")

\* create_buffer: the packet with the four counts create_buffer writes into
\* its header
Counted(p) ==
  [p EXCEPT !.header.questions = Len(p.questions) % U16,
            !.header.answers = Len(p.answers) % U16,
            !.header.authoritative_entries = Len(p.authorities) % U16,
            !.header.resource_entries = Len(p.resources) % U16]

\* C21: a packet that create_buffer encodes (labels of at most 63 octets,
\* counts below 2^16, at most 512 octets) decodes to the same packet, for
\* every record variant in any section and for the empty name.
RoundTripIsIdentity ==
  parsed.op = "try_from" /\ "packet" \in DOMAIN parsed =>
    parsed.result = Ok(Counted(parsed.packet))

\* BytePacketBuffer.buf: the 512 octets of a writer
Array(w) == [i \in 1..BufSize |-> ByteAt(w.buf, i - 1)]

\* C22: the datagram create_buffer produced decodes, and encoding the decoded
\* packet gives the same 512 octets.
ReencodeIsIdentical ==
  /\ parsed.op = "try_from" /\ "packet" \in DOMAIN parsed => parsed.result.ok
  /\ parsed.op = "create_buffer_again" =>
       /\ parsed.again.ok
       /\ Array(parsed.again.val) = Array(parsed.created.val)

\* the records of section s of a packet
Section(p, s) ==
  CASE s = 1 -> p.answers [] s = 2 -> p.authorities [] OTHER -> p.resources

\* C23: when the upstream reply a handler takes holds an Unknown record, the
\* datagram the handler sends to the client holds, in the same section, a
\* record with the same owner name, type code, TTL and RDLENGTH, and holds as
\* many records as its header counts (decoding it ends at its last octet).
UnknownPassesThrough ==
  [][\A h \in Requests :
       ( /\ handlers[h].pc = "lookup_recv"
         /\ handlers'[h].path = "resolved"
         /\ Len(outbox') = Len(outbox) + 1 ) =>
       LET up == decode(Head(upSock)).val
           sent == outbox'[Len(outbox')].bytes
           back == DnsPacket_read(sent)
       IN (\E s \in 1..3 : \E r \in Range(Section(up, s)) : r.kind = "Unknown") =>
            /\ back.ok
            /\ back.val.rd.pos = Len(sent)
            /\ \A s \in 1..3 : \A r \in Range(Section(up, s)) :
                 r.kind = "Unknown" => r \in Range(Section(back.val.v, s))]_vars

\* the path of the name that starts at pos, octet by octet and without any
\* memory of earlier names: the number of pointers on it, whether it comes
\* back to an offset it has visited, and the offset after its first pointer
\* or, without pointer, after its terminator (seen: the offsets visited)
RECURSIVE Path(_, _, _)
Path(buf, pos, seen) ==
  IF pos \in seen THEN [jumps |-> 0, cyclic |-> TRUE, after |-> pos]
  ELSE IF pos >= BufSize THEN [jumps |-> 0, cyclic |-> FALSE, after |-> pos]
  ELSE IF ByteAt(buf, pos) >= 192 THEN
    IF pos + 1 >= BufSize THEN [jumps |-> 0, cyclic |-> FALSE, after |-> pos]
    ELSE With(Path(buf, (ByteAt(buf, pos) - 192) * 256 + ByteAt(buf, pos + 1),
                   seen \cup {pos}), LAMBDA rest :
           [jumps |-> rest.jumps + 1, cyclic |-> rest.cyclic, after |-> pos + 2])
  ELSE IF ByteAt(buf, pos) = 0 THEN
    [jumps |-> 0, cyclic |-> FALSE, after |-> pos + 1]
  ELSE With(Path(buf, pos + 1 + ByteAt(buf, pos), seen \cup {pos}), LAMBDA rest :
         [jumps |-> rest.jumps, cyclic |-> rest.cyclic, after |-> rest.after])

\* the path of the name the last read_qname started at
LastPath == Path(parsed.rd.buf, parsed.start, {})

\* C24: read_qname succeeds only on a name whose path has at most five
\* pointers, and fails with TooManyJumps on a name whose path has more,
\* whatever was read from the buffer before.
AtMostFivePointers ==
  parsed.op = "read_qname" =>
    /\ parsed.result.ok => ~LastPath.cyclic /\ LastPath.jumps <= MAX_JUMP
    /\ LastPath.cyclic \/ LastPath.jumps > MAX_JUMP =>
         parsed.result = Err("TooManyJumps")

\* C25: read_qname on a name whose path comes back to an offset it has
\* visited returns the error TooManyJumps, whatever was read from the buffer
\* before.
CycleIsTooManyJumps ==
  parsed.op = "read_qname" /\ LastPath.cyclic =>
    parsed.result = Err("TooManyJumps")

\* C25 witness: in TwoCycle the name at 0 was read (and is remembered), and
\* the read of the name at 3, which points to 7 which points back to 3, has
\* failed with TooManyJumps.
CycleIsTooManyJumpsWitness ==
  /\ parsed.op = "read_qname"
  /\ parsed.rd.buf = TwoCycle
  /\ parsed.start = 3
  /\ parsed.had = {0}
  /\ LastPath.cyclic
  /\ parsed.result = Err("TooManyJumps")

\* C26: after a successful read_qname the cursor is two octets after the
\* first pointer on the path of the name or, when the path has no pointer,
\* one octet after the terminator; what is visited after the jump does not
\* move it.
CursorAfterFirstPointer ==
  parsed.op = "read_qname" /\ parsed.result.ok =>
    parsed.rd.pos = LastPath.after

\* C26 witness: in DoubleRedirect the name at 5 (b, a pointer to 3, where a
\* pointer leads to 0) was read as b.a and the cursor is at 9; and in the
\* same buffer a name without pointer was read.
CursorAfterFirstPointerWitness ==
  /\ parsed.op = "read_qname"
  /\ parsed.rd.buf = DoubleRedirect
  /\ parsed.start = 5
  /\ parsed.result = Ok(<<98, DOT, 97>>)
  /\ LastPath.jumps = 2
  /\ parsed.rd.pos = 9

\* C27: write_qname of a name of one label succeeds when the label has at
\* most 63 octets and the name fits in the buffer, and fails with the
\* single-label-too-long error when the label has 64 octets or more, for
\* every label length up to the longest a buffer can hold.
LabelLimit ==
  parsed.op = "write_qname" /\ parsed.name \in LabelNames =>
    /\ ( /\ Len(parsed.name) <= MaxLabel
         /\ parsed.from + Len(parsed.name) + 2 <= BufSize ) => parsed.result.ok
    /\ Len(parsed.name) > MaxLabel => parsed.result = Err("SingleLabelLengh")

\* C28: the names written one after another into a fresh buffer (lower case,
\* labels of at most 63 octets) are read back from offset 0 in the same
\* order, and each read leaves the cursor where the next name was written.
WrittenNamesReadBack ==
  ( /\ parsed.op = "read_qnames"
    /\ \A i \in DOMAIN parsed.names :
         parsed.names[i] \in DottedNames \/ Len(parsed.names[i]) <= MaxLabel ) =>
    /\ parsed.read.ok
    /\ [i \in DOMAIN parsed.read.val |-> parsed.read.val[i].name] = parsed.names
    /\ \A i \in DOMAIN parsed.names :
         parsed.read.val[i].cursor =
           IF i < Len(parsed.names) THEN parsed.starts[i + 1] ELSE parsed.w.pos

\* the response-code nibble and the question class of a datagram of FieldBuffers
CodeNibble(buf) == buf[4] % 16
ClassWord(buf) == buf[18] * 256 + buf[19]

\* C29: a header whose response-code nibble is 6..15 fails to decode with
\* the invalid-response-code error; 0..5 are NoError, FormatError,
\* ServerFailure, NameError, NotImplemented, Refused.
ResponseCodeNibble ==
  parsed.op = "try_from" =>
    IF CodeNibble(parsed.buf) >= 6
    THEN parsed.result = Err("InvalidResponseCode")
    ELSE /\ parsed.result # Err("InvalidResponseCode")
         /\ parsed.result.ok =>
              parsed.result.val.header.response_code =
                CASE CodeNibble(parsed.buf) = 0 -> "NoError"
                  [] CodeNibble(parsed.buf) = 1 -> "FormatError"
                  [] CodeNibble(parsed.buf) = 2 -> "ServerFailure"
                  [] CodeNibble(parsed.buf) = 3 -> "NameError"
                  [] CodeNibble(parsed.buf) = 4 -> "NotImplemented"
                  [] OTHER -> "Refused"

\* C29 witness: a datagram with every flag of the second octet set and code
\* nibble 15 (and a valid question) was decoded and gave the error.
ResponseCodeNibbleWitness ==
  /\ parsed.op = "try_from"
  /\ parsed.buf[4] = 255
  /\ ClassWord(parsed.buf) = 1
  /\ parsed.result = Err("InvalidResponseCode")

\* C30: a question whose class is not 1, 2, 3 or 4 fails to decode with the
\* invalid-class error, and so does the packet (whose header decodes).
QuestionClassChecked ==
  parsed.op = "try_from" /\ CodeNibble(parsed.buf) <= 5 =>
    IF ClassWord(parsed.buf) \in 1..4
    THEN /\ parsed.result.ok
         /\ parsed.result.val.questions[1].qclass =
              <<"Internet", "Csnet", "Chaos", "Hesiod">>[ClassWord(parsed.buf)]
    ELSE parsed.result = Err("InvalidClass")

\* C30 witness: a question of class 257, whose two octets are both 1, was
\* decoded after a valid header and the packet decode gave the error.
QuestionClassCheckedWitness ==
  /\ parsed.op = "try_from"
  /\ CodeNibble(parsed.buf) = 5
  /\ ClassWord(parsed.buf) = 257
  /\ parsed.result = Err("InvalidClass")

\* C31: get_range(start, len) succeeds exactly when start + len <= 512, and
\* with the octets of the range; it fails with EndOfBuffer otherwise. A range
\* that ends at offset 512 is readable.
RangeWithinBuffer ==
  parsed.op = "get_range" =>
    IF parsed.start + parsed.len <= BufSize
    THEN /\ parsed.result.ok
         /\ parsed.result.val =
              [i \in 1..parsed.len |-> ByteAt(parsed.rd.buf, parsed.start + i - 1)]
    ELSE ~parsed.result.ok /\ parsed.result.err = "EndOfBuffer"

\* the header flags response_from neither copies nor sets
OtherFlags ==
  {"truncated_message", "authoritative_answer", "checking_disabled",
   "authed_data", "z", "recursion_available"}

\* C32: response_from(q) has the id, the opcode and recursion_desired of q,
\* response set, response code NoError and every other flag clear; its
\* questions are those of q and its three record sections are empty; q is as
\* it was before the call.
ResponseFromRequest ==
  parsed.op = "response_from" =>
    /\ parsed.response.header.id = parsed.request.header.id
    /\ parsed.response.header.opcode = parsed.request.header.opcode
    /\ parsed.response.header.recursion_desired
         = parsed.request.header.recursion_desired
    /\ parsed.response.header.response
    /\ parsed.response.header.response_code = "NoError"
    /\ \A f \in OtherFlags : ~parsed.response.header[f]
    /\ parsed.response.questions = parsed.request.questions
    /\ parsed.response.answers = <<>>
    /\ parsed.response.authorities = <<>>
    /\ parsed.response.resources = <<>>
    /\ parsed.request = parsed.before

\* a request with two questions, a record, an opcode, RD and every flag set
\* has been answered
ResponseFromRequestWitness ==
  /\ parsed.op = "response_from"
  /\ Len(parsed.request.questions) = 2
  /\ parsed.request.answers # <<>>
  /\ parsed.request.header.opcode = 15
  /\ parsed.request.header.recursion_desired
  /\ parsed.request.header.z
  /\ parsed.request.header.response_code = "Refused"
  /\ parsed.response.header.opcode = 15

\* the 16-bit count field at octets at, at + 1 of a written buffer
CountField(w, at) == ByteAt(w.buf, at) * 256 + ByteAt(w.buf, at + 1)

\* C34: in the octets create_buffer wrote, the four count fields of the
\* header (octets 4..11) are the lengths of the questions, answers,
\* authorities and resources of the packet, whatever counts its header held.
CountsAreLengths ==
  parsed.op = "create_buffer" /\ parsed.created.ok =>
    /\ CountField(parsed.created.val, 4) = Len(parsed.packet.questions)
    /\ CountField(parsed.created.val, 6) = Len(parsed.packet.answers)
    /\ CountField(parsed.created.val, 8) = Len(parsed.packet.authorities)
    /\ CountField(parsed.created.val, 10) = Len(parsed.packet.resources)

\* a packet of two questions and one authority record whose header counted
\* 9 of each has been encoded
CountsAreLengthsWitness ==
  /\ parsed.op = "create_buffer"
  /\ parsed.created.ok
  /\ parsed.packet.header.questions = 9
  /\ parsed.packet.header.resource_entries = 9
  /\ Len(parsed.packet.questions) = 2
  /\ Len(parsed.packet.authorities) = 1
  /\ CountField(parsed.created.val, 4) = 2

\* C35: no upstream lookup component is built from an empty resolver list:
\* building one with no resolver fails, and no query is made with a
\* component that holds no resolver.
NeverBuiltEmpty ==
  /\ built.op = "build" /\ built.builder.resolvers = <<>> =>
       ~built.result.ok /\ built.result.err = "NoResolver"
  /\ built.op = "new" /\ built.config.servers = <<>> => ~built.result.ok
  /\ built.op = "resolve" => built.manager.resolvers # <<>>
  /\ built.op = "lookup" => built.service.servers # <<>>

\* the resolvers of the manager that hold an answer to the last question
Holding ==
  {i \in DOMAIN built.manager.resolvers :
     <<built.kind, built.hostname>> \in DOMAIN built.manager.resolvers[i].responses}

\* the identifiers of the first n resolvers of the manager, in order
FirstCalled(n) == [j \in 1..n |-> built.manager.resolvers[j].identifier]

\* C40: resolve calls the resolvers in the order they were added and stops at
\* the first that succeeds: it returns the packet of that resolver and one
\* error for each resolver before it, and calls none after it; when every
\* resolver fails it returns Failed with one error for each, in order.
ResolveStopsAtFirstSuccess ==
  built.op = "resolve" =>
    IF Holding # {}
    THEN \E first \in Holding :
           /\ \A i \in Holding : first <= i
           /\ built.result.ok
           /\ built.result.val.packet =
                built.manager.resolvers[first].responses[<<built.kind, built.hostname>>]
           /\ built.result.val.errors = [j \in 1..(first - 1) |-> "Unknown"]
           /\ built.calls = FirstCalled(first)
    ELSE /\ ~built.result.ok
         /\ built.result.err.failed =
              [j \in DOMAIN built.manager.resolvers |-> "Unknown"]
         /\ built.calls = FirstCalled(Len(built.manager.resolvers))

\* a manager of three different resolvers, of which the first fails and the
\* second and the third hold an answer, has resolved a name
ResolveStopsAtFirstSuccessWitness ==
  /\ built.op = "resolve"
  /\ Holding = {2, 3}
  /\ built.calls = <<"third", "first">>
  /\ built.manager.resolvers[3].identifier = "second"
  /\ built.result.ok
  /\ built.result.val.errors = <<"Unknown">>

\* a manager of three resolvers that all fail has resolved a name
AllResolversFailWitness ==
  /\ built.op = "resolve"
  /\ Len(built.manager.resolvers) = MaxResolvers
  /\ Holding = {}
  /\ built.calls = <<"second", "third", "first">>

\* the questions of the query datagrams sent upstream by a step
AskedUpstream(before, after) ==
  {<<q.val.header.id, q.val.questions>> : q \in {try_from(d) : d \in after \ before}}

\* C33: for a request of one or more questions the filter decides on the
\* name of the first question, the query sent upstream asks the name and
\* qtype of the first question and nothing else, and what is resolved is
\* remembered under the first question; the other questions change nothing.
FirstQuestionOnly ==
  [][\A h \in Requests :
       LET q == handlers[h].request.questions[1]
       IN
       /\ handlers[h].pc = "filter"
            /\ handlers'[h].pc \in {"done", "lookup_recv", "panicked"}
            /\ handlers'[h].error # "Blocklist" =>
              IF q.name \in Blocklist
              THEN /\ lookups' = lookups
                   /\ upNet' = upNet
                   /\ handlers'[h].pc = "done" => handlers'[h].path = "blocked"
              ELSE /\ lookups' = lookups + 1
                   /\ handlers'[h].path # "blocked"
                   /\ handlers'[h].pc = "lookup_recv" =>
                        AskedUpstream(upNet, upNet')
                          = {<<index, <<Question_new(q.name, q.qtype)>> >>}
       /\ handlers[h].pc = "lookup_recv" /\ handlers'[h].pc = "done" =>
            resolved' \ resolved \subseteq {<<q.name, q.qtype>>}
  ]_vars

\* a request that asks a and then the blocked x has been resolved, and one
\* that asks the blocked x and then a has been refused
FirstQuestionOnlyWitness ==
  /\ \E h \in Requests :
       /\ handlers[h].buffer = DgTwoAX
       /\ handlers[h].path = "resolved"
       /\ <<NameA, QT_A>> \in resolved
  /\ \E h \in Requests :
       /\ handlers[h].buffer = DgTwoXA
       /\ handlers[h].path = "blocked"

\* the id handler h took from the counter for its lookup
SentId(h) == (CHOOSE a \in Range(allocated) : a.h = h).id

\* C36: with several lookups in flight on the shared socket, the packet a
\* lookup returns has the transaction id that lookup sent and the question it
\* asked, and what is remembered as resolved for a (name, qtype) comes from a
\* reply to that question.
LookupReturnsOwnReply ==
  [][\A h \in Requests :
       handlers[h].pc = "lookup_recv" /\ handlers'[h].pc = "done" =>
         LET reply == decode(Head(upSock)).val
             asked == first_question(handlers[h].request)
         IN /\ reply.header.id = SentId(h)
            /\ reply.questions = <<Question_new(asked.name, asked.qtype)>>
  ]_vars

\* C37: a request that found an expired entry removes that entry only: when
\* the key holds another entry at the moment the request invalidates it (a
\* persist stored it after the request looked), that entry is still in the
\* cache after the request.
InvalidateSparesFreshEntry ==
  [][found.get.op = "get" /\ found'.get.op = "request" =>
       LET key == cache_key(found.get.qname, found.get.qtype)
       IN entry_of(cache, key) # found.get.seen =>
            entry_of(cache', key) = entry_of(cache, key)]_vars

\* the RDLENGTH field of the record of a datagram of RecordBuffers
DataLength(buf) == buf[DataStart - 1] * 256 + buf[DataStart]

\* C38: after Record::read has decoded a record of any type, the cursor is
\* RDLENGTH octets after the end of the RDLENGTH field, for every RDLENGTH.
CursorAfterRecordData ==
  parsed.op = "record" /\ parsed.result.ok =>
    parsed.result.val.rd.pos = DataStart + DataLength(parsed.buf)

\* C39: a decode that succeeds leaves the cursor at or before offset 512 and
\* holds no record whose RDATA ends after offset 512; a record of unknown
\* type whose RDLENGTH reaches past offset 512 fails with EndOfBuffer.
DecodeStaysInBuffer ==
  parsed.op = "packet" =>
    /\ parsed.result.ok =>
         /\ parsed.result.val.rd.pos <= BufSize
         /\ DataStart + DataLength(parsed.buf) <= BufSize
    /\ parsed.buf[RecordStart + 5] = 99
         /\ DataStart + DataLength(parsed.buf) > BufSize
         => parsed.result = Err("EndOfBuffer")

====
